---------------------------- MODULE Spec2Model ----------------------------
(***************************************************************************)
(* Model of the txrx control-plane server (src/server.cpp) and of the      *)
(* UsrpTransceiver it drives (src/usrp_transceiver.cpp).                     *)
(*                                                                         *)
(* One control thread runs the accept loop; inside one EXECUTE two tasks   *)
(* (TransmitFromBuffer, ReceiveToBuffer) run concurrently with it.  The    *)
(* radio, the request socket and the shared-memory namespace are the       *)
(* environment: their answers are chosen nondeterministically.             *)
(***************************************************************************)
EXTENDS Integers, Sequences, FiniteSets, TLC

VARIABLES
    stop_signal_called, \* server.cpp:25   the process-wide stop flag
    pc,                 \* position of the control thread in UHD_SAFE_MAIN
    req_proto,          \* server.cpp:104  the request being handled
    reply_proto,        \* server.cpp:105  the reply being built
    config,             \* server.cpp:125  local UsrpConfig of the EXECUTE branch
    m_config,           \* usrp_transceiver.h:25  UsrpTransceiver::_config
    start_time,         \* usrp_transceiver.h:28  UsrpTransceiver::start_time
    tx_region,          \* server.cpp:141  mapped input segment
    tx_buffs,           \* server.cpp:148  per-channel TX samples
    rx_buffs,           \* server.cpp:163  per-channel RX samples
    tx,                 \* the TX task (TransmitFromBuffer) and its locals
    rx,                 \* the RX task (ReceiveToBuffer) and its locals
    rx_shm,             \* the shared-memory object named "usrp_rx_shm"
    sent,               \* replies put on the socket for the current request
    steps,              \* history: the steps of the current request, in order
    hwTouched,          \* history: kinds of device calls made for the request
    failures,           \* history: where an exception was raised in the request
    startWrites,        \* history: assignments to start_time in the request
    prev_release,       \* history: the request answered last was a RELEASE
    late_request,       \* history: the request arrived with the stop flag set
    pps_polls,          \* history: polls made by the current wait for a PPS edge
    sensors,            \* the lock sensors of the device that report unlocked
    rt,                 \* state of the shared-transport round trip (SpecRT)
    vl,                 \* a call of ValidateConfiguration on its own (SpecValidate)
    ftx,                \* transmit_from_file_worker and its locals (SpecFile)
    frx,                \* receive_to_file_worker and its locals (SpecFile)
    cli,                \* the main thread of a command-line program (SpecFile)
    tune                \* the timed tune of ApplyConfiguration (SpecTune)

vars == << stop_signal_called, pc, req_proto, reply_proto, config, m_config,
           start_time, tx_region, tx_buffs, rx_buffs, tx, rx, rx_shm, sent,
           steps, hwTouched, failures, startWrites, prev_release,
           late_request, pps_polls, sensors, rt, vl, ftx, frx, cli, tune >>

(***************************************************************************)
(* Bounds of the model and constants of the program.                       *)
(***************************************************************************)
MaxChannels  == 2   \* longest channel list of a request
MaxInSamples == 2   \* largest input segment, in whole samples
MaxSpb       == 2   \* largest chunk size spb of a request
MaxNsamps    == 2   \* largest receive count nsamps of a request
MaxNow       == 1   \* latest device time read when start_time is computed
MaxDelay     == 2   \* largest configured start delay
HwChannels   == 2   \* channels the device reports, for TX and for RX
RtValues     == 2   \* distinct sample values of the round trip
MaxRtSamples == 3   \* longest channel of the round trip
MaxPpsPolls  == 2   \* polls for a PPS edge the model follows
MaxFileSamples == 2 \* longest TX file, in whole samples
SampleWidth  == 8   \* sizeof(complexf), two 4-byte floats

Min(a, b) == IF a < b THEN a ELSE b

NoValue == "none"

(***************************************************************************)
(* The file system seen by fs::exists / fs::file_size: name -> byte size.  *)
(* A name outside the domain does not exist.                               *)
(***************************************************************************)
Files == ("a" :> 16) @@ ("b" :> 16) @@ ("c" :> 8)

exists(f) == f \in DOMAIN Files
file_size(f) == Files[f]

\* variant of adjacent_differ: only the first two elements are compared
adjacent_differ_FirstPair(s) == Len(s) > 1 /\ s[1] # s[2]

\* std::ranges::adjacent_find(s, std::not_equal_to{}) != s.end()
adjacent_differ(s) == \E i \in 1..(Len(s) - 1) : s[i] # s[i + 1]

(***************************************************************************)
(* UsrpTransceiver::ValidateConfiguration, usrp_transceiver.cpp:28-106.    *)
(* The RX range check at 54-58 logs and does not return.                   *)
(***************************************************************************)
tx_sizes(c) == << Len(c.tx_channels), Len(c.tx_files), Len(c.tx_ants),
                  Len(c.tx_gains), Len(c.tx_freqs) >>

rx_sizes(c) == << Len(c.rx_channels), Len(c.rx_files), Len(c.rx_ants),
                  Len(c.rx_gains), Len(c.rx_freqs) >>

ValidateConfiguration(c) ==
    IF \E i \in DOMAIN c.tx_channels : c.tx_channels[i] >= HwChannels
    THEN FALSE
    ELSE IF adjacent_differ(tx_sizes(c)) THEN FALSE
    ELSE IF adjacent_differ(rx_sizes(c)) THEN FALSE
    ELSE IF ~ (\A i \in DOMAIN c.tx_files : exists(c.tx_files[i])) THEN FALSE
    ELSE IF adjacent_differ([i \in DOMAIN c.tx_files |-> file_size(c.tx_files[i])])
    THEN FALSE
    ELSE TRUE

(***************************************************************************)
(* Requests the client can send.  A configuration is a UsrpConfig record   *)
(* (usrp_transceiver.h:9-20); only the length of the antenna, gain,        *)
(* frequency and rate lists matters to the code, so their entries are 0.   *)
(***************************************************************************)
Chans(n) == [i \in 1..n |-> i - 1]
Fill(n, v) == [i \in 1..n |-> v]
DropLast(s) == SubSeq(s, 1, Len(s) - 1)
SetLast(s, v) == [s EXCEPT ![Len(s)] = v]

\* std::vector::resize: cut to n entries, or grown with fill
Resize(list, n, fill) ==
    [ i \in 1..n |-> IF i <= Len(list) THEN list[i] ELSE fill ]

BaseConfig(ntx, nrx, spb, nsamps, delay, clk) ==
    [ clock_source |-> clk, time_source |-> clk,
      spb |-> spb, delay |-> delay, nsamps |-> nsamps,
      tx_channels |-> Chans(ntx), rx_channels |-> Chans(nrx),
      tx_rates |-> Fill(ntx, 0),  rx_rates |-> Fill(nrx, 0),
      tx_freqs |-> Fill(ntx, 0),  rx_freqs |-> Fill(nrx, 0),
      tx_gains |-> Fill(ntx, 0),  rx_gains |-> Fill(nrx, 0),
      tx_ants  |-> Fill(ntx, 0),  rx_ants  |-> Fill(nrx, 0),
      tx_files |-> Fill(ntx, "a"), rx_files |-> Fill(nrx, "out") ]

Defects == { "tx_gains_short", "tx_files_short", "rx_ants_short",
             "rx_freqs_short", "tx_file_missing", "tx_file_size",
             "tx_chan_range", "rx_chan_range", "tx_rates_missing" }

Defective(c, d) ==
    CASE d = "tx_gains_short"  -> [c EXCEPT !.tx_gains = DropLast(@)]
      [] d = "tx_files_short"  -> [c EXCEPT !.tx_files = DropLast(@)]
      [] d = "rx_ants_short"   -> [c EXCEPT !.rx_ants = DropLast(@)]
      [] d = "rx_freqs_short"  -> [c EXCEPT !.rx_freqs = DropLast(@)]
      [] d = "tx_file_missing" -> [c EXCEPT !.tx_files = SetLast(@, "missing")]
      [] d = "tx_file_size"    -> [c EXCEPT !.tx_files = SetLast(@, "c")]
      [] d = "tx_chan_range"   -> [c EXCEPT !.tx_channels = SetLast(@, HwChannels)]
      [] d = "rx_chan_range"   -> [c EXCEPT !.rx_channels = SetLast(@, HwChannels)]
      [] d = "tx_rates_missing" -> [c EXCEPT !.tx_rates = << >>]
      [] d = "tx_rates_short"   -> [c EXCEPT !.tx_rates = DropLast(@)]

ClockSources == { "internal", "external", "gpsdo", "mimo" }

\* a default-constructed configuration
NoConfig == BaseConfig(0, 0, 0, 0, 0, NoValue)

\* every channel shape, with the largest chunk size and receive count
ShapeConfigs ==
    { BaseConfig(ntx, nrx, MaxSpb, MaxNsamps, 1, "internal") :
        ntx \in 0..MaxChannels, nrx \in 0..MaxChannels }

\* every chunk size and receive count, with one channel each way
ChunkConfigs ==
    { BaseConfig(1, 1, spb, nsamps, 1, "internal") :
        spb \in 0..MaxSpb, nsamps \in 0..MaxNsamps }

\* one shape with every delay and clock source
TimedConfigs ==
    { BaseConfig(1, 1, 1, 1, d, clk) : d \in 0..MaxDelay, clk \in ClockSources }

\* one shape with one list broken
BrokenConfigs ==
    { Defective(BaseConfig(MaxChannels, MaxChannels, 1, 1, 1, "internal"), d) :
        d \in Defects }

ServerConfigs ==
    ShapeConfigs \cup ChunkConfigs \cup TimedConfigs \cup BrokenConfigs

Requests ==
    { [parses |-> FALSE, cmd |-> NoValue, config |-> NoConfig] }
    \cup { [parses |-> TRUE, cmd |-> c, config |-> NoConfig] :
             c \in { "RELEASE", "OTHER" } }
    \cup { [parses |-> TRUE, cmd |-> "EXECUTE", config |-> c] :
             c \in ServerConfigs }

\* server.cpp:36-66: the fields ConvertConfig copies; rate, rx_bw, tx_bw and
\* freq of the struct are left as constructed
ConvertConfig(proto_cfg) ==
    [ clock_source |-> proto_cfg.clock_source,
      time_source  |-> proto_cfg.time_source,
      spb          |-> proto_cfg.spb,
      delay        |-> proto_cfg.delay,
      nsamps       |-> proto_cfg.nsamps,
      tx_channels  |-> proto_cfg.tx_channels,
      rx_channels  |-> proto_cfg.rx_channels,
      tx_rates     |-> proto_cfg.tx_rates,
      rx_rates     |-> proto_cfg.rx_rates,
      tx_freqs     |-> proto_cfg.tx_freqs,
      rx_freqs     |-> proto_cfg.rx_freqs,
      tx_gains     |-> proto_cfg.tx_gains,
      rx_gains     |-> proto_cfg.rx_gains,
      tx_ants      |-> proto_cfg.tx_ants,
      rx_ants      |-> proto_cfg.rx_ants,
      tx_files     |-> proto_cfg.tx_files,
      rx_files     |-> proto_cfg.rx_files ]

(***************************************************************************)
(* Replies, server.cpp:105-108: a fresh Response has status UNKNOWN and    *)
(* no other field set.                                                     *)
(***************************************************************************)
NewReply ==
    [ status |-> "UNKNOWN", msg |-> NoValue, rx_shm_name |-> NoValue,
      rx_nsamps_per_ch |-> -1, num_rx_ch |-> -1 ]

\* variant of set_status: the status is left as it was
set_status_Keep(r, s) == r

set_status(r, s) == [r EXCEPT !.status = s]
set_msg(r, m) == [r EXCEPT !.msg = m]

(***************************************************************************)
(* Shared-memory segments: the byte length and the whole samples held.     *)
(***************************************************************************)
NoSegment == [present |-> FALSE, bytes |-> 0, data |-> << >>]
Segment(bytes, data) == [present |-> TRUE, bytes |-> bytes, data |-> data]

\* variant of remove: the name is left in place
remove_Keep(shm) == shm

\* server.cpp:167, 189: bip::shared_memory_object::remove unlinks the name;
\* with no such object it returns false and does not raise
remove(shm) == NoSegment

\* input segments a client may have prepared: every length in half samples,
\* sample j holding the value j
InputSegments ==
    { Segment(h * (SampleWidth \div 2),
              [j \in 1..(h \div 2) |-> j]) : h \in 0..(2 * MaxInSamples) }

(***************************************************************************)
(* server.cpp:143-153: split the mapped region into per-channel buffers.   *)
(* Called with num_tx_ch >= 1; the division by num_tx_ch = 0 is undefined  *)
(* and handled where the action is taken.                                  *)
(***************************************************************************)
samps_per_ch_of(region, num_tx_ch) ==
    region.bytes \div (num_tx_ch * SampleWidth)

\* variant of SplitChannels: the region is read sample-major
SplitChannels_SampleMajor(region, num_tx_ch, samps_per_ch) ==
    [ i \in 1..num_tx_ch |->
        [ k \in 1..samps_per_ch |-> region.data[(k - 1) * num_tx_ch + i] ] ]

SplitChannels(region, num_tx_ch, samps_per_ch) ==
    [ i \in 1..num_tx_ch |->
        [ k \in 1..samps_per_ch |-> region.data[(i - 1) * samps_per_ch + k] ] ]

(***************************************************************************)
(* server.cpp:169-180: write the RX result into a fresh region of          *)
(* num_rx_ch * rx_samps_per_ch samples, channel i at rx_ptr + i * N.       *)
(***************************************************************************)
copy_to(data, src, off) ==
    [ j \in DOMAIN data |->
        IF j > off /\ j <= off + Len(src) THEN src[j - off] ELSE data[j] ]

RECURSIVE write_channels(_, _, _, _)
write_channels(data, buffs, rx_samps_per_ch, i) ==
    IF i > Len(buffs) THEN data
    ELSE write_channels(copy_to(data, buffs[i], (i - 1) * rx_samps_per_ch),
                        buffs, rx_samps_per_ch, i + 1)

WriteChannels(buffs, rx_samps_per_ch) ==
    write_channels(Fill(Len(buffs) * rx_samps_per_ch, 0), buffs,
                   rx_samps_per_ch, 1)

(***************************************************************************)
(* The radio.  A streamer has one channel per entry of the channel list    *)
(* it was opened with (usrp_transceiver.cpp:255-256, 319-320); an empty    *)
(* list opens it on channel 0 alone.  Sample k of the channel at position  *)
(* p of an RX stream is RxSample(p, k).                                    *)
(***************************************************************************)
get_num_channels(channels) == IF channels = << >> THEN 1 ELSE Len(channels)

RxSample(p, k) == p * (MaxNsamps + MaxSpb + 1) + k

\* the kinds of device call ApplyConfiguration makes, by step
ChannelCalls(c) ==
    IF Len(c.tx_channels) + Len(c.rx_channels) > 0
    THEN { "gain", "antenna", "rate" } ELSE { }
\* 112-142: the calls in the order they are made: gain, antenna and rate
\* of every TX channel, then of every RX channel
ChannelCallSeq(c) ==
    [ n \in 1..(3 * (Len(c.tx_channels) + Len(c.rx_channels))) |->
        << "gain", "antenna", "rate" >>[((n - 1) % 3) + 1] ]

\* the kinds of the first n calls of ApplyConfiguration's channel loops
CallsThrough(c, n) == { ChannelCallSeq(c)[k] : k \in 1..n }

\* the places in that order of the rate calls whose read of the rate list
\* (124, 141) is out of range
OutOfRangeRateCalls(c) ==
    { 3 * i : i \in (Len(c.tx_rates) + 1)..Len(c.tx_channels) }
    \cup { 3 * (Len(c.tx_channels) + i) :
             i \in (Len(c.rx_rates) + 1)..Len(c.rx_channels) }

ClockCalls == { "clock_source", "time_source" }
TuneCalls(c) ==
    { "command_time" } \cup
    (IF Len(c.tx_channels) + Len(c.rx_channels) > 0 THEN { "tune" } ELSE { })

\* the boards of the device (get_num_mboards)
NumMboards == 1

\* the lock sensors of the device: lo_locked of every TX and RX channel,
\* ref_locked and mimo_locked of every board
Sensor(kind, index) == [ kind |-> kind, index |-> index ]
LockSensors ==
    { Sensor(k, ch) : k \in { "tx_lo_locked", "rx_lo_locked" },
                      ch \in 0..(HwChannels - 1) }
    \cup { Sensor(k, mb) : k \in { "ref_locked", "mimo_locked" },
                           mb \in 0..(NumMboards - 1) }

\* what the sensors may report after the tune: all locked, or one unlocked
SensorReadings == { { } } \cup { { x } : x \in LockSensors }

\* variant of LockAssertFails: the RX sensors are not read
LockAssertFails_TxOnly(c, unlocked) ==
    \/ \E i \in DOMAIN c.tx_channels :
          Sensor("tx_lo_locked", c.tx_channels[i]) \in unlocked
    \/ /\ c.clock_source = "external"
       /\ \E mb \in 0..(NumMboards - 1) : Sensor("ref_locked", mb) \in unlocked
    \/ /\ c.clock_source = "mimo"
       /\ \E mb \in 0..(NumMboards - 1) : Sensor("mimo_locked", mb) \in unlocked

\* usrp_transceiver.cpp:198-242: one of the UHD_ASSERT_THROW fails, given
\* the set of sensors that report unlocked
LockAssertFails(c, unlocked) ==
    \/ \E i \in DOMAIN c.tx_channels :
          Sensor("tx_lo_locked", c.tx_channels[i]) \in unlocked
    \/ \E i \in DOMAIN c.rx_channels :
          Sensor("rx_lo_locked", c.rx_channels[i]) \in unlocked
    \/ /\ c.clock_source = "external"
       /\ \E mb \in 0..(NumMboards - 1) : Sensor("ref_locked", mb) \in unlocked
    \/ /\ c.clock_source = "mimo"
       /\ \E mb \in 0..(NumMboards - 1) : Sensor("mimo_locked", mb) \in unlocked

(***************************************************************************)
(* Initial state: the server is bound and about to test its loop           *)
(* condition (server.cpp:89-98); no output segment exists.                 *)
(***************************************************************************)
IdleTx == [ pc |-> "idle", time_spec |-> 0, current_sample_idx |-> 0,
            total_samples |-> 0, samps_to_send |-> 0, end_of_burst |-> FALSE ]
\* usrp_transceiver.cpp:331, 358: the timeout of recv, in tenths of a second
LongTimeout == 50
ShortTimeout == 1

IdleRx == [ pc |-> "idle", time_spec |-> 0, num_samps_received |-> 0,
            buffs |-> << >>, error_code |-> "NONE", what |-> NoValue,
            first_packet |-> TRUE, timeout |-> LongTimeout,
            offset |-> 0, nsamps_per_buff |-> 0 ]

RtIdle == [ phase |-> "off", channels |-> << >>, segment |-> NoSegment,
            back |-> << >> ]

\* no call of ValidateConfiguration on its own is under way
VlOff == [ phase |-> "off", config |-> NoConfig, result |-> FALSE,
           changed |-> NoValue, again |-> FALSE, cli_result |-> FALSE ]

\* workers.cpp:23-49: the locals of transmit_from_file_worker, with the
\* files it reads, what it handed to the streamer and the markers it sent
FtxOff == [ pc |-> "off", num_channels |-> 0, spb |-> 0,
            file_bytes |-> << >>, cursor |-> << >>,
            buffs |-> << >>, read_samps |-> << >>, buf_valid_samps |-> 0,
            buf_sent_samps |-> 0, eof |-> FALSE, samps_to_send |-> 0,
            out |-> << >>, markers |-> 0, data_after_marker |-> FALSE ]

\* workers.cpp:163-184: the locals of receive_to_file_worker
FrxOff == [ pc |-> "off", num_channels |-> 0, num_files |-> 0, spb |-> 0,
            num_samps_to_recv |-> 0,
            num_samps_received |-> 0, written |-> 0, error_code |-> "NONE",
            what |-> NoValue, first_packet |-> TRUE, timeout |-> LongTimeout ]

\* the timed tune is not under way
TuneOff == [ pc |-> "off", tx_channels |-> << >>, rx_channels |-> << >>,
             clock_source |-> NoValue, now |-> 0, last_pps_time |-> 0, zero_at |-> 0, index |-> 0,
             command_time |-> NoValue, calls |-> << >> ]

\* <cstdlib>
EXIT_SUCCESS == 0
EXIT_FAILURE == 1
\* txrx_sync.cpp:527: what UHD_SAFE_MAIN returns (~0, as an exit status)
\* when an exception leaves the main function
SafeMainFailure == 255

\* the main thread of a command-line program: not running, or at one of its
\* steps with the command line it was given, or returned with an exit status
CliOff == [ pc |-> "off", program |-> NoValue, status |-> -1,
            args |-> NoValue, config |-> NoConfig ]

Init ==
    /\ stop_signal_called = FALSE
    /\ pc = "loop"
    /\ req_proto = [parses |-> FALSE, cmd |-> NoValue, config |-> NoConfig]
    /\ reply_proto = NewReply
    /\ config = NoConfig
    /\ m_config = NoConfig
    /\ start_time = 0
    /\ tx_region = NoSegment
    /\ tx_buffs = << >>
    /\ rx_buffs = << >>
    /\ tx = IdleTx
    /\ rx = IdleRx
    /\ rx_shm = NoSegment
    /\ sent = << >>
    /\ steps = << >>
    /\ hwTouched = { }
    /\ failures = { }
    /\ startWrites = 0
    /\ prev_release = FALSE
    /\ late_request = FALSE
    /\ pps_polls = 0
    /\ sensors = { }
    /\ rt = RtIdle
    /\ vl = VlOff
    /\ ftx = FtxOff
    /\ frx = FrxOff
    /\ cli = CliOff
    /\ tune = TuneOff

locals == << req_proto, reply_proto, config, tx_region, tx_buffs, rx_buffs >>
device == << m_config, start_time >>
tasks  == << tx, rx >>
history == << sent, steps, hwTouched, failures, startWrites >>
waits == << prev_release, late_request, pps_polls, sensors >>
aux == << rt, vl, ftx, frx, cli, tune >>

(***************************************************************************)
(* server.cpp:27-30: SIGINT sets the stop flag, at any moment.             *)
(***************************************************************************)
sig_int_handler ==
    /\ pc \notin { "exit", "crashed" }
    /\ cli.pc \notin { "parse", "exited", "crashed" }
    /\ ftx.pc # "crashed" /\ frx.pc # "crashed"
    /\ ~ stop_signal_called
    /\ stop_signal_called' = TRUE
    /\ UNCHANGED << pc, locals, device, tasks, rx_shm, history, waits, aux >>

(***************************************************************************)
(* server.cpp:98: the loop condition.  The locals of the finished          *)
(* iteration are gone; the members _config and start_time keep their       *)
(* values in the code, but every read of them in a request follows that    *)
(* request's write (usrp_transceiver.cpp:109, 244), so the model drops     *)
(* the stale values together with the history of the finished request.     *)
(***************************************************************************)
LoopCheck ==
    /\ pc = "loop"
    /\ pc' = IF stop_signal_called THEN "exit" ELSE "recv"
    /\ req_proto' = [parses |-> FALSE, cmd |-> NoValue, config |-> NoConfig]
    /\ reply_proto' = NewReply
    /\ config' = NoConfig
    /\ m_config' = NoConfig
    /\ start_time' = 0
    /\ tx_region' = NoSegment
    /\ tx_buffs' = << >>
    /\ rx_buffs' = << >>
    /\ tx' = IdleTx
    /\ rx' = IdleRx
    /\ sent' = << >>
    /\ steps' = << >>
    /\ hwTouched' = { }
    /\ failures' = { }
    /\ startWrites' = 0
    /\ prev_release' = IF steps = << >> THEN prev_release
                       ELSE req_proto.parses /\ req_proto.cmd = "RELEASE"
    /\ late_request' = FALSE
    /\ pps_polls' = 0
    /\ UNCHANGED << stop_signal_called, rx_shm, sensors, aux >>

\* server.cpp:99-101: recv returns without a message
RecvNothing ==
    /\ pc = "recv"
    /\ pc' = "loop"
    /\ UNCHANGED << stop_signal_called, locals, device, tasks, rx_shm,
                    history, waits, aux >>

\* server.cpp:100: the signal interrupts the blocking recv, which raises
\* zmq::error_t outside the try block; the exception leaves main
RecvInterrupted ==
    /\ pc = "recv"
    /\ stop_signal_called
    /\ pc' = "crashed"
    /\ UNCHANGED << stop_signal_called, locals, device, tasks, rx_shm,
                    history, waits, aux >>

\* server.cpp:99-110: a request arrives and is parsed; the stop flag is not
\* looked at between the return of recv and the dispatch
Receive ==
    /\ pc = "recv"
    /\ \E r \in Requests : req_proto' = r
    /\ reply_proto' = NewReply
    /\ steps' = << "request" >>
    /\ late_request' = stop_signal_called
    /\ pc' = "parsed"
    /\ UNCHANGED << stop_signal_called, config, tx_region, tx_buffs, rx_buffs,
                    device, tasks, rx_shm, sent, hwTouched, failures,
                    startWrites, prev_release, pps_polls, sensors, aux >>

\* variant of ParseErrorReply: the reply is sent as it was constructed
ParseErrorReply_Unset(r) == r

\* server.cpp:114-115
ParseErrorReply(r) == set_msg(set_status(r, "ERROR"), "Protobuf parse error")

\* server.cpp:112-120: the message does not parse
ParseError ==
    /\ pc = "parsed"
    /\ ~ req_proto.parses
    /\ reply_proto' = ParseErrorReply(reply_proto)
    /\ sent' = Append(sent, reply_proto')
    /\ steps' = Append(steps, "reply")
    /\ pc' = "loop"
    /\ UNCHANGED << stop_signal_called, req_proto, config, tx_region, tx_buffs,
                    rx_buffs, device, tasks, rx_shm, hwTouched, failures,
                    startWrites, waits, aux >>

\* server.cpp:188-190
DispatchRelease ==
    /\ pc = "parsed"
    /\ req_proto.parses
    /\ req_proto.cmd = "RELEASE"
    /\ rx_shm' = remove(rx_shm)
    /\ reply_proto' = set_status(reply_proto, "RELEASED")
    /\ pc' = "respond"
    /\ UNCHANGED << stop_signal_called, req_proto, config, tx_region, tx_buffs,
                    rx_buffs, device, tasks, history, waits, aux >>

\* server.cpp:191-194
DispatchUnknown ==
    /\ pc = "parsed"
    /\ req_proto.parses
    /\ req_proto.cmd \notin { "EXECUTE", "RELEASE" }
    /\ reply_proto' = set_msg(set_status(reply_proto, "ERROR"),
                              "Unknown command")
    /\ pc' = "respond"
    /\ UNCHANGED << stop_signal_called, req_proto, config, tx_region, tx_buffs,
                    rx_buffs, device, tasks, rx_shm, history, waits, aux >>

\* variants of AfterValidate: the failure branch falls through to the device,
\* and the success branch skips ApplyConfiguration
AfterValidate_FallThrough(ok) == "apply"
AfterValidate_NoApply(ok) == IF ok THEN "open_input" ELSE "failed"

\* server.cpp:128-137: where the EXECUTE branch goes after validation
AfterValidate(ok) == IF ok THEN "apply" ELSE "failed"

\* server.cpp:124-128: convert and validate the configuration
DispatchExecute ==
    /\ pc = "parsed"
    /\ req_proto.parses
    /\ req_proto.cmd = "EXECUTE"
    /\ config' = ConvertConfig(req_proto.config)
    /\ steps' = Append(steps, "validate")
    /\ pc' = AfterValidate(ValidateConfiguration(config'))
    /\ UNCHANGED << stop_signal_called, req_proto, reply_proto, tx_region,
                    tx_buffs, rx_buffs, device, tasks, rx_shm, sent, hwTouched,
                    failures, startWrites, waits, aux >>

\* server.cpp:130-137: validation failed
ValidationFailed ==
    /\ pc = "failed"
    /\ reply_proto' = set_msg(set_status(reply_proto, "FAILED"),
                              "Configuration validation failed")
    /\ sent' = Append(sent, reply_proto')
    /\ steps' = Append(steps, "reply")
    /\ pc' = "loop"
    /\ UNCHANGED << stop_signal_called, req_proto, config, tx_region, tx_buffs,
                    rx_buffs, device, tasks, rx_shm, hwTouched, failures,
                    startWrites, waits, aux >>

\* server.cpp:195-199: the catch block, entered from the raising statement
Catch(site) ==
    /\ reply_proto' = set_msg(set_status(reply_proto, "ERROR"), site)
    /\ failures' = failures \cup { site }
    /\ pc' = "respond"

\* server.cpp:200-204: serialize and send the reply, end of the iteration
Respond ==
    /\ pc = "respond"
    /\ sent' = Append(sent, reply_proto)
    /\ steps' = Append(steps, "reply")
    /\ pc' = "loop"
    /\ UNCHANGED << stop_signal_called, locals, device, tasks, rx_shm,
                    hwTouched, failures, startWrites, waits, aux >>

(***************************************************************************)
(* UsrpTransceiver::ApplyConfiguration, usrp_transceiver.cpp:108-249, run  *)
(* by the control thread.  An exception leaves it for the server's catch.  *)
(***************************************************************************)
\* 116-124, 133-141 index the gain, antenna and rate lists by channel position
RatesInRange(c) ==
    /\ Len(c.tx_rates) >= Len(c.tx_channels)
    /\ Len(c.rx_rates) >= Len(c.rx_channels)

\* 109-143: keep the configuration, set gain, antenna and rate per channel
ApplyChannels ==
    /\ pc = "apply"
    /\ RatesInRange(config)
    /\ m_config' = config
    /\ hwTouched' = hwTouched \cup ChannelCalls(config)
    /\ pc' = "apply_clock"
    /\ UNCHANGED << stop_signal_called, locals, start_time, tasks, rx_shm,
                    sent, steps, failures, startWrites, waits, aux >>

\* 124, 141: a rate list shorter than its channel list is read out of range
\* (an empty list through a null pointer); every such read faults, with the
\* calls before it made and the rate call not, or yields a value
ApplyChannelsOutOfRange ==
    /\ pc = "apply"
    /\ ~ RatesInRange(config)
    /\ m_config' = config
    /\ \/ /\ pc' = "apply_clock"
          /\ hwTouched' = hwTouched \cup ChannelCalls(config)
       \/ /\ pc' = "crashed"
          /\ \E n \in OutOfRangeRateCalls(config) :
                hwTouched' = hwTouched \cup CallsThrough(config, n - 1)
    /\ UNCHANGED << stop_signal_called, locals, start_time, tasks, rx_shm,
                    sent, steps, failures, startWrites, waits, aux >>

\* 116-141: a device call raises; the calls up to it were made
ApplyChannelsError ==
    /\ pc = "apply"
    /\ ChannelCalls(config) # { }
    /\ m_config' = config
    /\ \E n \in DOMAIN ChannelCallSeq(config) :
         hwTouched' = hwTouched \cup CallsThrough(config, n)
    /\ Catch("configure")
    /\ UNCHANGED << stop_signal_called, req_proto, config, tx_region, tx_buffs,
                    rx_buffs, start_time, tasks, rx_shm, sent, steps,
                    startWrites, waits, aux >>

\* 146-155: clock and time source
ApplyClock ==
    /\ pc = "apply_clock"
    /\ hwTouched' = hwTouched \cup ClockCalls
    /\ pc' = "apply_pps"
    /\ UNCHANGED << stop_signal_called, locals, device, tasks, rx_shm, sent,
                    steps, failures, startWrites, waits, aux >>

\* 161-164: no new PPS edge yet, sleep and poll again; the loop has no other
\* exit than a new edge
ApplyPpsPoll ==
    /\ pc = "apply_pps"
    /\ pps_polls < MaxPpsPolls
    /\ pps_polls' = pps_polls + 1
    /\ UNCHANGED << stop_signal_called, pc, locals, device, tasks, rx_shm,
                    history, prev_release, late_request, sensors,
                    aux >>

\* 162-169: a PPS edge was seen, the device time is reset on the next one
ApplyPpsEdge ==
    /\ pc = "apply_pps"
    /\ hwTouched' = hwTouched \cup { "time_next_pps" }
    /\ pps_polls' = 0
    /\ pc' = "apply_tune"
    /\ UNCHANGED << stop_signal_called, locals, device, tasks, rx_shm, sent,
                    steps, failures, startWrites, prev_release, late_request,
                    sensors, aux >>

\* 173-195: the timed tune of every channel; the sensors settle
ApplyTune ==
    /\ pc = "apply_tune"
    /\ hwTouched' = hwTouched \cup TuneCalls(m_config)
    /\ sensors' \in SensorReadings
    /\ pc' = "apply_lock"
    /\ UNCHANGED << stop_signal_called, locals, device, tasks, rx_shm, sent,
                    steps, failures, startWrites, prev_release, late_request,
                    pps_polls,
                    aux >>

\* 198-242: a lock sensor reports unlocked, UHD_ASSERT_THROW raises
ApplyLockFailed ==
    /\ pc = "apply_lock"
    /\ LockAssertFails(m_config, sensors)
    /\ Catch("lock")
    /\ sensors' = { }
    /\ UNCHANGED << stop_signal_called, req_proto, config, tx_region, tx_buffs,
                    rx_buffs, device, tasks, rx_shm, sent, steps, hwTouched,
                    startWrites, prev_release, late_request, pps_polls,
                    aux >>

\* 244: the start instant
StartInstant(now, delay) == now + delay

\* 198-249: every sensor read is locked; start_time is computed
ApplyStartTime ==
    /\ pc = "apply_lock"
    /\ ~ LockAssertFails(m_config, sensors)
    /\ \E now \in 1..MaxNow :
         start_time' = StartInstant(now, m_config.delay)
    /\ startWrites' = startWrites + 1
    /\ steps' = Append(steps, "configure")
    /\ sensors' = { }
    /\ pc' = "open_input"
    /\ UNCHANGED << stop_signal_called, locals, m_config, tasks, rx_shm, sent,
                    hwTouched, failures, prev_release, late_request,
                    pps_polls, aux >>

(***************************************************************************)
(* server.cpp:140-155: open, map and split the input segment.              *)
(***************************************************************************)
\* 140: no segment of that name
OpenInputMissing ==
    /\ pc = "open_input"
    /\ Catch("open_input")
    /\ UNCHANGED << stop_signal_called, req_proto, config, tx_region, tx_buffs,
                    rx_buffs, device, tasks, rx_shm, sent, steps, hwTouched,
                    startWrites, waits, aux >>

\* 141: a segment of length 0 cannot be mapped
OpenInputEmpty ==
    /\ pc = "open_input"
    /\ Catch("map_input")
    /\ UNCHANGED << stop_signal_called, req_proto, config, tx_region, tx_buffs,
                    rx_buffs, device, tasks, rx_shm, sent, steps, hwTouched,
                    startWrites, waits, aux >>

\* 140-141: the segment the client prepared is mapped
OpenInput ==
    /\ pc = "open_input"
    /\ \E seg \in InputSegments :
         /\ seg.bytes > 0
         /\ tx_region' = seg
    /\ pc' = "split"
    /\ UNCHANGED << stop_signal_called, req_proto, reply_proto, config,
                    tx_buffs, rx_buffs, device, tasks, rx_shm, history, waits, aux >>

\* 143-153
SplitInput ==
    /\ pc = "split"
    /\ Len(config.tx_channels) > 0
    /\ LET num_tx_ch == Len(config.tx_channels)
           samps_per_ch == samps_per_ch_of(tx_region, num_tx_ch)
       IN  tx_buffs' = SplitChannels(tx_region, num_tx_ch, samps_per_ch)
    /\ steps' = Append(steps, "split")
    /\ pc' = "launch"
    /\ UNCHANGED << stop_signal_called, req_proto, reply_proto, config,
                    tx_region, rx_buffs, device, tasks, rx_shm, sent,
                    hwTouched, failures, startWrites, waits, aux >>

\* 145 with num_tx_ch = 0 divides by zero: the process is killed, or the
\* division yields some samps_per_ch, which 148-153 do not use for 0 channels
SplitInputNoChannels ==
    /\ pc = "split"
    /\ Len(config.tx_channels) = 0
    /\ \/ /\ pc' = "crashed"
          /\ UNCHANGED << tx_buffs, steps >>
       \/ /\ tx_buffs' = << >>
          /\ steps' = Append(steps, "split")
          /\ pc' = "launch"
    /\ UNCHANGED << stop_signal_called, req_proto, reply_proto, config,
                    tx_region, rx_buffs, device, tasks, rx_shm, sent,
                    hwTouched, failures, startWrites, waits, aux >>

(***************************************************************************)
(* server.cpp:158-163: start both tasks, wait for TX, take the RX result.  *)
(***************************************************************************)
Launch ==
    /\ pc = "launch"
    /\ tx' = [IdleTx EXCEPT !.pc = "start"]
    /\ rx' = [IdleRx EXCEPT !.pc = "start"]
    /\ steps' = Append(steps, "launch")
    /\ pc' = "wait_tx"
    /\ UNCHANGED << stop_signal_called, locals, device, rx_shm, sent,
                    hwTouched, failures, startWrites, waits, aux >>

\* variant of Ready: the control thread does not wait for the task
Ready_NoWait(task) == TRUE

\* a future is ready once its task has returned or raised
Ready(task) == task.pc \in { "done", "raised" }

\* 162: tx_thread.wait() returns; an exception stored in the future is not
\* rethrown by wait()
WaitTx ==
    /\ pc = "wait_tx"
    /\ Ready(tx)
    /\ pc' = "get_rx"
    /\ UNCHANGED << stop_signal_called, locals, device, tasks, rx_shm,
                    history, waits, aux >>

\* 163: rx_future.get() returns the buffers
GetRx ==
    /\ pc = "get_rx"
    /\ Ready(rx)
    /\ rx.pc = "done"
    /\ rx_buffs' = rx.buffs
    /\ steps' = Append(steps, "join")
    /\ pc' = "write_output"
    /\ UNCHANGED << stop_signal_called, req_proto, reply_proto, config,
                    tx_region, tx_buffs, device, tasks, rx_shm, sent,
                    hwTouched, failures, startWrites, waits, aux >>

\* 163: rx_future.get() rethrows what the RX task raised
GetRxRaised ==
    /\ pc = "get_rx"
    /\ Ready(rx)
    /\ rx.pc = "raised"
    /\ Catch(rx.what)
    /\ UNCHANGED << stop_signal_called, req_proto, config, tx_region, tx_buffs,
                    rx_buffs, device, tasks, rx_shm, sent, steps, hwTouched,
                    startWrites, waits, aux >>

(***************************************************************************)
(* UsrpTransceiver::TransmitFromBuffer, usrp_transceiver.cpp:251-313, the  *)
(* TX task.  It reads _config, start_time, the buffers and the stop flag.  *)
(***************************************************************************)
\* variant of md_time_spec: the metadata carries no start time
md_time_spec_Unset(start) == 0

\* 263: the time attached to the sends
md_time_spec(start) == start

\* 277
total_samples_of(buffs) == IF Len(buffs) = 0 THEN 0 ELSE Len(buffs[1])

\* 283
samps_to_send_of(spb, total_samples, current_sample_idx) ==
    Min(spb, total_samples - current_sample_idx)

\* variant of tx_continues: the stop flag is not looked at
tx_continues_NoStop(stop, current_sample_idx, total_samples) ==
    current_sample_idx < total_samples

\* 281: the loop condition
tx_continues(stop, current_sample_idx, total_samples) ==
    ~ stop /\ current_sample_idx < total_samples

\* 252-279
TxStart ==
    /\ tx.pc = "start"
    /\ tx' = [ pc |-> "loop", time_spec |-> md_time_spec(start_time),
               current_sample_idx |-> 0,
               total_samples |-> total_samples_of(tx_buffs),
               samps_to_send |-> 0,
               end_of_burst |-> FALSE ]
    /\ hwTouched' = hwTouched \cup { "tx_stream" }
    /\ UNCHANGED << stop_signal_called, pc, locals, device, rx, rx_shm, sent,
                    steps, failures, startWrites, waits, aux >>

\* 256: get_tx_stream raises
TxStartError ==
    /\ tx.pc = "start"
    /\ tx' = [tx EXCEPT !.pc = "raised"]
    /\ hwTouched' = hwTouched \cup { "tx_stream" }
    /\ failures' = failures \cup { "tx" }
    /\ UNCHANGED << stop_signal_called, pc, locals, device, rx, rx_shm, sent,
                    steps, startWrites, waits, aux >>

\* 281-295: the loop condition holds and send is called; the call blocks
\* up to its timeout, and the stop flag may be set while it does
TxCall ==
    /\ tx.pc = "loop"
    /\ tx_continues(stop_signal_called, tx.current_sample_idx, tx.total_samples)
    /\ tx' = [tx EXCEPT
                !.pc = "send",
                !.samps_to_send = samps_to_send_of(m_config.spb,
                                                   tx.total_samples,
                                                   tx.current_sample_idx)]
    /\ hwTouched' = hwTouched \cup { "send" }
    /\ UNCHANGED << stop_signal_called, pc, locals, device, rx, rx_shm, sent,
                    steps, failures, startWrites, waits, aux >>

\* 290-305: send returns; the streamer took samps_sent of the samples
\* offered, 0 leaves the cursor where it is
TxSend ==
    /\ tx.pc = "send"
    /\ \E samps_sent \in 0..tx.samps_to_send :
         tx' = [tx EXCEPT !.pc = "loop",
                          !.current_sample_idx = @ + samps_sent]
    /\ UNCHANGED << stop_signal_called, pc, locals, device, rx, rx_shm,
                    history, waits, aux >>

\* 290: send raises
TxSendError ==
    /\ tx.pc = "send"
    /\ tx' = [tx EXCEPT !.pc = "raised"]
    /\ failures' = failures \cup { "tx" }
    /\ UNCHANGED << stop_signal_called, pc, locals, device, rx, rx_shm, sent,
                    steps, hwTouched, startWrites, waits, aux >>

\* 281: the loop condition fails
TxLoopExit ==
    /\ tx.pc = "loop"
    /\ ~ tx_continues(stop_signal_called, tx.current_sample_idx,
                      tx.total_samples)
    /\ tx' = [tx EXCEPT !.pc = "finalize"]
    /\ UNCHANGED << stop_signal_called, pc, locals, device, rx, rx_shm,
                    history, waits, aux >>

\* variant of Finalized: the function returns without the marker
Finalized_NoMarker(t) == [t EXCEPT !.pc = "done"]

\* 309-311: md.end_of_burst = true and the send of no samples
Finalized(t) == [t EXCEPT !.pc = "done", !.end_of_burst = TRUE]

\* 309-312: the end-of-burst marker
TxEndOfBurst ==
    /\ tx.pc = "finalize"
    /\ tx' = Finalized(tx)
    /\ hwTouched' = hwTouched \cup { "send" }
    /\ UNCHANGED << stop_signal_called, pc, locals, device, rx, rx_shm, sent,
                    steps, failures, startWrites, waits, aux >>

\* 310: the send of the marker raises
TxEndOfBurstError ==
    /\ tx.pc = "finalize"
    /\ tx' = [tx EXCEPT !.pc = "raised"]
    /\ hwTouched' = hwTouched \cup { "send" }
    /\ failures' = failures \cup { "tx" }
    /\ UNCHANGED << stop_signal_called, pc, locals, device, rx, rx_shm, sent,
                    steps, startWrites, waits, aux >>

(***************************************************************************)
(* UsrpTransceiver::ReceiveToBuffer, usrp_transceiver.cpp:315-387, the RX  *)
(* task.  The stream command asks for nsamps samples in all, so a recv     *)
(* never delivers more than what is left of them.                          *)
(***************************************************************************)
\* the error codes of uhd::rx_metadata_t the model tells apart
ErrorCodes == { "NONE", "TIMEOUT", "OVERFLOW", "LATE_COMMAND", "BAD_PACKET" }

\* variant of rx_error_class: an overflow is fatal
rx_error_class_OverflowFatal(code) ==
    IF code = "TIMEOUT" THEN "continue"
    ELSE IF code # "NONE" THEN "raise"
    ELSE "count"

\* 363-376 (workers.cpp:196-213): what the loop does with a read, by the
\* error code of its metadata
rx_error_class(code) ==
    IF code = "TIMEOUT" THEN "continue"
    ELSE IF code = "OVERFLOW" THEN "continue"
    ELSE IF code # "NONE" THEN "raise"
    ELSE "count"

\* 373: md.strerror() names the code; the exception carries it
ReceiveError(code) == "Receive error: " \o code

\* 357-360 (workers.cpp:190-193): the timeout after a recv has returned
timeout_after_recv(first_packet, timeout) ==
    IF first_packet THEN ShortTimeout ELSE timeout

\* variant of rx_continues: the chunk size is taken for the target count
rx_continues_Spb(stop, num_samps_received, c) ==
    ~ stop /\ num_samps_received < c.spb

\* 355: the count recv is asked for
recv_nsamps_per_buff(c) == c.spb

\* 350-355: the call of recv is recorded with the offset of its pointers
\* and the count asked for
RecvCalled(r, c) ==
    [ r EXCEPT !.offset = r.num_samps_received,
               !.nsamps_per_buff = recv_nsamps_per_buff(c) ]

\* 348: the loop condition
rx_continues(stop, num_samps_received, c) ==
    ~ stop /\ num_samps_received < c.nsamps

\* 324, 351-355: the buffers of nsamps samples each, the first
\* num_samps_received of them written by recv
FilledBuffs(num_channels, nsamps, num_samps_received) ==
    [ p \in 1..num_channels |->
        [ k \in 1..nsamps |->
            IF k <= num_samps_received THEN RxSample(p, k) ELSE 0 ] ]

\* variant of ReceivedBuffs: the buffers are returned as allocated
ReceivedBuffs_Untrimmed(num_channels, nsamps, num_samps_received) ==
    FilledBuffs(num_channels, nsamps, num_samps_received)

\* 336: the time carried by the stream command
stream_cmd_time_spec(start) == start

\* 324, 382-386: the buffers of nsamps samples, cut to the received count
ReceivedBuffs(num_channels, nsamps, num_samps_received) ==
    LET buffs == FilledBuffs(num_channels, nsamps, num_samps_received)
    IN  [ p \in 1..num_channels |-> Resize(buffs[p], num_samps_received, 0) ]

\* 316-345
RxStart ==
    /\ rx.pc = "start"
    /\ rx' = [ IdleRx EXCEPT
                 !.pc = "loop",
                 !.time_spec = stream_cmd_time_spec(start_time) ]
    /\ hwTouched' = hwTouched \cup { "rx_stream", "stream_cmd" }
    /\ UNCHANGED << stop_signal_called, pc, locals, device, tx, rx_shm, sent,
                    steps, failures, startWrites, waits, aux >>

\* 320: get_rx_stream raises
RxStartError ==
    /\ rx.pc = "start"
    /\ rx' = [rx EXCEPT !.pc = "raised", !.what = "get_rx_stream"]
    /\ hwTouched' = hwTouched \cup { "rx_stream" }
    /\ failures' = failures \cup { "rx" }
    /\ UNCHANGED << stop_signal_called, pc, locals, device, tx, rx_shm, sent,
                    steps, startWrites, waits, aux >>

\* 348-355: the loop condition holds and recv is called; the call blocks
\* up to its timeout, and the stop flag may be set while it does
RxCall ==
    /\ rx.pc = "loop"
    /\ rx_continues(stop_signal_called, rx.num_samps_received, m_config)
    /\ rx' = [RecvCalled(rx, m_config) EXCEPT !.pc = "recv"]
    /\ hwTouched' = hwTouched \cup { "recv" }
    /\ UNCHANGED << stop_signal_called, pc, locals, device, tx, rx_shm, sent,
                    steps, failures, startWrites, waits, aux >>

\* 355-376: recv returns without error and delivers num_rx_samps samples;
\* the stream command (332-333) lets the device deliver nsamps samples in all
RxRecv ==
    /\ rx.pc = "recv"
    /\ \E code \in ErrorCodes, num_rx_samps \in
            0..Min(m_config.spb, m_config.nsamps - rx.num_samps_received) :
         /\ rx_error_class(code) = "count"
         /\ rx' = [rx EXCEPT
                      !.pc = "loop",
                      !.num_samps_received = @ + num_rx_samps,
                      !.error_code = code,
                      !.timeout = timeout_after_recv(rx.first_packet, @),
                      !.first_packet = FALSE]
    /\ UNCHANGED << stop_signal_called, hwTouched, pc, locals, device, tx, rx_shm, sent,
                    steps, failures, startWrites, waits, aux >>

\* 363-370: timeout or overflow, the read is not counted
RxRecvTransient ==
    /\ rx.pc = "recv"
    /\ \E code \in ErrorCodes :
         /\ rx_error_class(code) = "continue"
         /\ rx' = [rx EXCEPT
                      !.pc = "loop",
                      !.error_code = code,
                      !.timeout = timeout_after_recv(rx.first_packet, @),
                      !.first_packet = FALSE]
    /\ UNCHANGED << stop_signal_called, hwTouched, pc, locals, device, tx, rx_shm, sent,
                    steps, failures, startWrites, waits, aux >>

\* 371-374: any other error code
RxRecvError ==
    /\ rx.pc = "recv"
    /\ \E code \in ErrorCodes :
         /\ rx_error_class(code) = "raise"
         /\ rx' = [rx EXCEPT
                      !.pc = "raised", !.error_code = code,
                      !.what = ReceiveError(code),
                      !.timeout = timeout_after_recv(rx.first_packet, @),
                      !.first_packet = FALSE]
    /\ failures' = failures \cup { "rx" }
    /\ UNCHANGED << stop_signal_called, hwTouched, pc, locals, device, tx, rx_shm, sent,
                    steps, startWrites, waits, aux >>

\* 348, 379-386: the loop ends, the buffers are cut and returned
RxLoopExit ==
    /\ rx.pc = "loop"
    /\ ~ rx_continues(stop_signal_called, rx.num_samps_received, m_config)
    /\ rx' = [rx EXCEPT !.pc = "done",
                        !.buffs = ReceivedBuffs(
                                    get_num_channels(m_config.rx_channels),
                                    m_config.nsamps,
                                    rx.num_samps_received)]
    /\ UNCHANGED << stop_signal_called, pc, locals, device, tx, rx_shm,
                    history, waits, aux >>

(***************************************************************************)
(* server.cpp:165-186: replace the output segment and fill the reply.      *)
(***************************************************************************)
\* 171
total_rx_bytes_of(num_rx_ch, rx_samps_per_ch) ==
    num_rx_ch * rx_samps_per_ch * SampleWidth

\* variant of SuccessReply: the two shape fields are exchanged
SuccessReply_Swapped(r, name, rx_samps_per_ch, num_rx_ch) ==
    [ set_status(r, "SUCCESS") EXCEPT !.rx_shm_name = name,
                                      !.rx_nsamps_per_ch = num_rx_ch,
                                      !.num_rx_ch = rx_samps_per_ch ]

\* 183-186
SuccessReply(r, name, rx_samps_per_ch, num_rx_ch) ==
    [ set_status(r, "SUCCESS") EXCEPT !.rx_shm_name = name,
                                      !.rx_nsamps_per_ch = rx_samps_per_ch,
                                      !.num_rx_ch = num_rx_ch ]

\* 166-186 with a result of more than 0 bytes (the result has a buffer for
\* every channel of the RX streamer, which has at least one)
WriteOutput ==
    /\ pc = "write_output"
    /\ LET num_rx_ch == Len(rx_buffs)
           rx_samps_per_ch == Len(rx_buffs[1])
           total_rx_bytes == total_rx_bytes_of(num_rx_ch, rx_samps_per_ch)
       IN  /\ total_rx_bytes > 0
           /\ rx_shm' = Segment(total_rx_bytes,
                                WriteChannels(rx_buffs, rx_samps_per_ch))
           /\ reply_proto' = SuccessReply(reply_proto, "usrp_rx_shm",
                                          rx_samps_per_ch, num_rx_ch)
    /\ steps' = Append(steps, "output")
    /\ pc' = "respond"
    /\ UNCHANGED << stop_signal_called, req_proto, config, tx_region, tx_buffs,
                    rx_buffs, device, tasks, sent, hwTouched, failures,
                    startWrites, waits, aux >>

\* 167-175 with a result of 0 bytes: the old segment is removed, the new one
\* is created with length 0 and mapping it raises
WriteOutputEmpty ==
    /\ pc = "write_output"
    /\ total_rx_bytes_of(Len(rx_buffs), Len(rx_buffs[1])) = 0
    /\ rx_shm' = Segment(0, << >>)
    /\ Catch("map_output")
    /\ UNCHANGED << stop_signal_called, req_proto, config, tx_region, tx_buffs,
                    rx_buffs, device, tasks, sent, steps, hwTouched,
                    startWrites, waits, aux >>

\* 167-173: the old segment is removed and creating the new one raises
WriteOutputCreateError ==
    /\ pc = "write_output"
    /\ rx_shm' = remove(rx_shm)
    /\ Catch("create_output")
    /\ UNCHANGED << stop_signal_called, req_proto, config, tx_region, tx_buffs,
                    rx_buffs, device, tasks, sent, steps, hwTouched,
                    startWrites, waits, aux >>

(***************************************************************************)
(* The server: the control thread, the two tasks and the signal.           *)
(***************************************************************************)
Next ==
    \/ sig_int_handler
    \/ LoopCheck
    \/ RecvNothing
    \/ RecvInterrupted
    \/ Receive
    \/ ParseError
    \/ DispatchRelease
    \/ DispatchUnknown
    \/ DispatchExecute
    \/ ValidationFailed
    \/ Respond
    \/ ApplyChannels
    \/ ApplyChannelsOutOfRange
    \/ ApplyChannelsError
    \/ ApplyClock
    \/ ApplyPpsPoll
    \/ ApplyPpsEdge
    \/ ApplyTune
    \/ ApplyLockFailed
    \/ ApplyStartTime
    \/ OpenInputMissing
    \/ OpenInputEmpty
    \/ OpenInput
    \/ SplitInput
    \/ SplitInputNoChannels
    \/ Launch
    \/ WaitTx
    \/ GetRx
    \/ GetRxRaised
    \/ TxStart
    \/ TxStartError
    \/ TxCall
    \/ TxSend
    \/ TxSendError
    \/ TxLoopExit
    \/ TxEndOfBurst
    \/ TxEndOfBurstError
    \/ RxStart
    \/ RxStartError
    \/ RxCall
    \/ RxRecv
    \/ RxRecvTransient
    \/ RxRecvError
    \/ RxLoopExit
    \/ WriteOutput
    \/ WriteOutputEmpty
    \/ WriteOutputCreateError

Spec == Init /\ [][Next]_vars

\* the steps of the two tasks; std::async(std::launch::async) runs each on a
\* thread of its own, which the scheduler does not starve
TxNext ==
    \/ TxStart
    \/ TxStartError
    \/ TxCall
    \/ TxSend
    \/ TxSendError
    \/ TxLoopExit
    \/ TxEndOfBurst
    \/ TxEndOfBurstError

RxNext ==
    \/ RxStart
    \/ RxStartError
    \/ RxCall
    \/ RxRecv
    \/ RxRecvTransient
    \/ RxRecvError
    \/ RxLoopExit

SpecFair == Spec /\ WF_vars(TxNext) /\ WF_vars(RxNext)

\* 290-304: a send that took at least one sample
TxAccept ==
    /\ TxSend
    /\ tx'.current_sample_idx > tx.current_sample_idx

\* 355-376: a read that delivered at least one sample
RxDeliver ==
    /\ RxRecv
    /\ rx'.num_samps_received > rx.num_samps_received

\* the steps of the TX task when the streamer raises nothing and takes
\* samples of every send that offers some
TxProgress ==
    \/ TxStart
    \/ TxCall
    \/ TxAccept
    \/ TxLoopExit
    \/ TxEndOfBurst

\* the steps of the RX task when the streamer raises nothing and delivers
\* samples to every read that asks for some
RxProgress ==
    \/ RxStart
    \/ RxCall
    \/ RxDeliver
    \/ RxLoopExit

\* server.cpp:162-204: the control thread from the wait for TX to the reply
JoinAndReply ==
    \/ WaitTx
    \/ GetRx
    \/ GetRxRaised
    \/ WriteOutput
    \/ WriteOutputEmpty
    \/ WriteOutputCreateError
    \/ Respond

\* the threads are not starved, and the device goes on accepting and
\* delivering samples
SpecLive ==
    /\ Spec
    /\ WF_vars(TxProgress)
    /\ WF_vars(RxProgress)
    /\ WF_vars(JoinAndReply)

(***************************************************************************)
(* The shared-transport round trip: a channel set is written with the      *)
(* rule of server.cpp:169-180 and split back with that of 143-153.         *)
(***************************************************************************)
ChannelSets ==
    UNION { [ 1..c -> [ 1..n -> 1..RtValues ] ] :
              c \in 1..MaxChannels, n \in 0..MaxRtSamples }

InitRT ==
    /\ stop_signal_called = FALSE
    /\ pc = "loop"
    /\ req_proto = [parses |-> FALSE, cmd |-> NoValue, config |-> NoConfig]
    /\ reply_proto = NewReply
    /\ config = NoConfig
    /\ m_config = NoConfig
    /\ start_time = 0
    /\ tx_region = NoSegment
    /\ tx_buffs = << >>
    /\ rx_buffs = << >>
    /\ tx = IdleTx
    /\ rx = IdleRx
    /\ rx_shm = NoSegment
    /\ sent = << >>
    /\ steps = << >>
    /\ hwTouched = { }
    /\ failures = { }
    /\ startWrites = 0
    /\ prev_release = FALSE
    /\ late_request = FALSE
    /\ pps_polls = 0
    /\ sensors = { }
    /\ vl = VlOff
    /\ ftx = FtxOff
    /\ frx = FrxOff
    /\ cli = CliOff
    /\ tune = TuneOff
    /\ \E chans \in ChannelSets :
         rt = [ phase |-> "input", channels |-> chans, segment |-> NoSegment,
                back |-> << >> ]

server == << stop_signal_called, pc, locals, device, tasks, rx_shm, history,
             waits >>

\* server.cpp:169-180
RtWrite ==
    /\ rt.phase = "input"
    /\ LET num_rx_ch == Len(rt.channels)
           rx_samps_per_ch == Len(rt.channels[1])
       IN  /\ total_rx_bytes_of(num_rx_ch, rx_samps_per_ch) > 0
           /\ rt' = [rt EXCEPT
                    !.phase = "written",
                    !.segment =
                        Segment(total_rx_bytes_of(num_rx_ch, rx_samps_per_ch),
                                WriteChannels(rt.channels, rx_samps_per_ch))]
    /\ UNCHANGED << server, vl, ftx, frx, cli, tune >>

\* server.cpp:169-175 with 0 samples per channel: the segment is created
\* with 0 bytes and mapping it raises; nothing is written
RtWriteEmpty ==
    /\ rt.phase = "input"
    /\ total_rx_bytes_of(Len(rt.channels), Len(rt.channels[1])) = 0
    /\ rt' = [rt EXCEPT !.phase = "raised", !.segment = Segment(0, << >>)]
    /\ UNCHANGED << server, vl, ftx, frx, cli, tune >>

\* server.cpp:143-153
RtSplit ==
    /\ rt.phase = "written"
    /\ LET num_tx_ch == Len(rt.channels)
           samps_per_ch == samps_per_ch_of(rt.segment, num_tx_ch)
       IN  rt' = [rt EXCEPT
                    !.phase = "split",
                    !.back = SplitChannels(rt.segment, num_tx_ch, samps_per_ch)]
    /\ UNCHANGED << server, vl, ftx, frx, cli, tune >>

NextRT ==
    \/ RtWrite
    \/ RtWriteEmpty
    \/ RtSplit

SpecRT == InitRT /\ [][NextRT]_vars

(***************************************************************************)
(* The control thread and the two tasks at rest, with the control thread   *)
(* at position p: the state the other specifications leave the server in.  *)
(***************************************************************************)
ServerAt(p) ==
    /\ stop_signal_called = FALSE
    /\ pc = p
    /\ req_proto = [parses |-> FALSE, cmd |-> NoValue, config |-> NoConfig]
    /\ reply_proto = NewReply
    /\ config = NoConfig
    /\ m_config = NoConfig
    /\ start_time = 0
    /\ tx_region = NoSegment
    /\ tx_buffs = << >>
    /\ rx_buffs = << >>
    /\ tx = IdleTx
    /\ rx = IdleRx
    /\ rx_shm = NoSegment
    /\ sent = << >>
    /\ steps = << >>
    /\ hwTouched = { }
    /\ failures = { }
    /\ startWrites = 0
    /\ prev_release = FALSE
    /\ late_request = FALSE
    /\ pps_polls = 0
    /\ sensors = { }

(***************************************************************************)
(* ValidateConfiguration on its own (usrp_transceiver.cpp:28-106): called  *)
(* on a configuration, then called again after the length of one           *)
(* per-channel list was changed.                                           *)
(***************************************************************************)
\* channel lists: 0 .. n-1, or that with one entry the device does not have
ChannelLists(n) ==
    { Chans(n) } \cup { [Chans(n) EXCEPT ![i] = HwChannels] : i \in 1..n }

\* TX file lists: n times "a", or that with one entry of the same size, of
\* another size, or missing
FileLists(n) ==
    { Fill(n, "a") } \cup
    { [Fill(n, "a") EXCEPT ![i] = f] : i \in 1..n, f \in { "b", "c", "missing" } }

\* every combination of the five TX lists, with no RX channel
TxConfigs ==
    { [ BaseConfig(0, 0, 1, 1, 1, "internal") EXCEPT
          !.tx_channels = ch, !.tx_files = fl, !.tx_ants = Fill(la, 0),
          !.tx_gains = Fill(lg, 0), !.tx_freqs = Fill(lf, 0) ] :
        ch \in UNION { ChannelLists(n) : n \in 0..MaxChannels },
        fl \in UNION { FileLists(n) : n \in 0..MaxChannels },
        la \in 0..MaxChannels, lg \in 0..MaxChannels, lf \in 0..MaxChannels }

\* every combination of the five RX lists, with one good TX channel
RxConfigs ==
    { [ BaseConfig(1, 0, 1, 1, 1, "internal") EXCEPT
          !.rx_channels = ch, !.rx_files = Fill(lfi, "out"),
          !.rx_ants = Fill(la, 0), !.rx_gains = Fill(lg, 0),
          !.rx_freqs = Fill(lf, 0) ] :
        ch \in UNION { ChannelLists(n) : n \in 0..MaxChannels },
        lfi \in 0..MaxChannels, la \in 0..MaxChannels,
        lg \in 0..MaxChannels, lf \in 0..MaxChannels }

ValidateConfigs == TxConfigs \cup RxConfigs \cup BrokenConfigs

\* the lists ValidateConfiguration compares, and what a longer one is
\* filled with
ListFields ==
    { "tx_channels", "tx_files", "tx_ants", "tx_gains", "tx_freqs",
      "rx_channels", "rx_files", "rx_ants", "rx_gains", "rx_freqs" }

Resized(c, f, n) ==
    [ c EXCEPT ![f] = Resize(@, n, IF f \in { "tx_files", "rx_files" }
                                   THEN "a" ELSE 0) ]

\* the conversion of an int to the bool a function returns
to_bool(n) == n # 0

\* ValidateUsrpConfiguration, txrx_sync.cpp:298-376, the validator of the
\* command-line program; the RX range check at 324-328 logs and does not
\* return, and the missing file returns EXIT_FAILURE at 357
ValidateUsrpConfiguration(c) ==
    IF \E i \in DOMAIN c.tx_channels : c.tx_channels[i] >= HwChannels
    THEN FALSE
    ELSE IF adjacent_differ(tx_sizes(c)) THEN FALSE
    ELSE IF adjacent_differ(rx_sizes(c)) THEN FALSE
    ELSE IF ~ (\A i \in DOMAIN c.tx_files : exists(c.tx_files[i]))
    THEN to_bool(EXIT_FAILURE)
    ELSE IF adjacent_differ([i \in DOMAIN c.tx_files |-> file_size(c.tx_files[i])])
    THEN FALSE
    ELSE TRUE

InitValidate ==
    /\ ServerAt("loop")
    /\ rt = RtIdle
    /\ ftx = FtxOff
    /\ frx = FrxOff
    /\ cli = CliOff
    /\ tune = TuneOff
    /\ \E c \in ValidateConfigs : vl = [VlOff EXCEPT !.phase = "input",
                                                      !.config = c]

\* usrp_transceiver.cpp:28-106 and txrx_sync.cpp:298-376 on one input
VlValidate ==
    /\ vl.phase = "input"
    /\ vl' = [vl EXCEPT !.phase = "validated",
                        !.result = ValidateConfiguration(vl.config),
                        !.cli_result = ValidateUsrpConfiguration(vl.config)]
    /\ UNCHANGED << server, rt, ftx, frx, cli, tune >>

\* the caller changes the length of one list of a role whose five lists
\* had the same length
VlResize ==
    /\ vl.phase = "validated"
    /\ \E f \in ListFields, n \in 0..(MaxChannels + 1) :
         /\ n # Len(vl.config[f])
         /\ ~ adjacent_differ(IF f \in { "tx_channels", "tx_files", "tx_ants",
                                         "tx_gains", "tx_freqs" }
                              THEN tx_sizes(vl.config) ELSE rx_sizes(vl.config))
         /\ vl' = [vl EXCEPT !.phase = "resized", !.changed = f,
                             !.config = Resized(@, f, n)]
    /\ UNCHANGED << server, rt, ftx, frx, cli, tune >>

\* usrp_transceiver.cpp:28-106, on the changed configuration
VlRevalidate ==
    /\ vl.phase = "resized"
    /\ vl' = [vl EXCEPT !.phase = "revalidated",
                        !.again = ValidateConfiguration(vl.config)]
    /\ UNCHANGED << server, rt, ftx, frx, cli, tune >>

NextValidate ==
    \/ VlValidate
    \/ VlResize
    \/ VlRevalidate

SpecValidate == InitValidate /\ [][NextValidate]_vars

(***************************************************************************)
(* The PPS wait and the timed tune of ApplyConfiguration                   *)
(* (usrp_transceiver.cpp:161-188, txrx_sync.cpp:442-469) with the clocks.  *)
(* Time is counted in steps of 50 ms; `now` is the time since an arbitrary *)
(* PPS edge, so the edges are at the multiples of PpsPeriod; zero_at is    *)
(* the instant at which the device time is 0; a device call takes no time  *)
(* and a sleep takes the time asked for.                                   *)
(***************************************************************************)
PpsPeriod    == 20  \* one second between PPS edges
PollSleep    == 2   \* usrp_transceiver.cpp:163  sleep_for(100 ms)
SettleSleep  == 22  \* usrp_transceiver.cpp:167  sleep_for(1100 ms)
CommandTime  == 6   \* usrp_transceiver.cpp:173  set_command_time(0.3)

\* get_time_last_pps: the edge seen last, named by its instant
get_time_last_pps(now) == (now \div PpsPeriod) * PpsPeriod

\* variant of next_pps_edge: the time is set at once
next_pps_edge_Now(now) == now

\* set_time_next_pps: the edge after `now`, at which the time is latched
next_pps_edge(now) == (now \div PpsPeriod + 1) * PpsPeriod

\* get_time_now
get_time_now(t) == t.now - t.zero_at

\* a device call as it is logged: its name, the channel, the command time
\* in effect and the device time at the call
Call(t, name, ch) ==
    [ name |-> name, ch |-> ch, command_time |-> t.command_time,
      time_now |-> get_time_now(t) ]

\* the runs: every channel shape and every instant within a PPS period
TuneRuns ==
    { [ TuneOff EXCEPT
          !.pc = "poll", !.tx_channels = Chans(ntx),
          !.rx_channels = Chans(nrx), !.clock_source = clk, !.now = t0,
          !.last_pps_time = get_time_last_pps(t0),
          !.zero_at = 0 ] :
        ntx \in 0..MaxChannels, nrx \in 0..MaxChannels,
        clk \in { "internal", "external", "mimo" },
        t0 \in 0..(PpsPeriod - 1) }

\* 161-164: the edge has not changed, sleep
TnPoll ==
    /\ tune.pc = "poll"
    /\ tune.last_pps_time = get_time_last_pps(tune.now)
    /\ tune' = [tune EXCEPT !.now = @ + PollSleep]
    /\ UNCHANGED << server, rt, vl, ftx, frx, cli >>

\* 162-167: a new edge was seen; the time is set on the next edge and the
\* thread sleeps past it
TnSetTime ==
    /\ tune.pc = "poll"
    /\ tune.last_pps_time # get_time_last_pps(tune.now)
    /\ tune' = [tune EXCEPT
                  !.pc = "command_time",
                  !.zero_at = next_pps_edge(tune.now),
                  !.now = @ + SettleSleep,
                  !.calls = Append(@, [ Call(tune, "set_time_next_pps", NoValue)
                                          EXCEPT !.time_now = NoValue ])]
    /\ UNCHANGED << server, rt, vl, ftx, frx, cli >>

\* 173-174
TnSetCommandTime ==
    /\ tune.pc = "command_time"
    /\ tune' = [tune EXCEPT
                  !.pc = "tune_tx", !.index = 1,
                  !.command_time = CommandTime,
                  !.calls = Append(@, Call(tune, "set_command_time", NoValue))]
    /\ UNCHANGED << server, rt, vl, ftx, frx, cli >>

\* 175-179: one set_tx_freq, or the end of the loop
TnTuneTx ==
    /\ tune.pc = "tune_tx"
    /\ tune' = IF tune.index <= Len(tune.tx_channels)
               THEN [tune EXCEPT
                       !.index = @ + 1,
                       !.calls = Append(@, Call(tune, "set_tx_freq",
                                                tune.tx_channels[tune.index]))]
               ELSE [tune EXCEPT !.pc = "tune_rx", !.index = 1]
    /\ UNCHANGED << server, rt, vl, ftx, frx, cli >>

\* 180-184: one set_rx_freq, or the end of the loop
TnTuneRx ==
    /\ tune.pc = "tune_rx"
    /\ tune' = IF tune.index <= Len(tune.rx_channels)
               THEN [tune EXCEPT
                       !.index = @ + 1,
                       !.calls = Append(@, Call(tune, "set_rx_freq",
                                                tune.rx_channels[tune.index]))]
               ELSE [tune EXCEPT !.pc = "clear", !.index = 0]
    /\ UNCHANGED << server, rt, vl, ftx, frx, cli >>

\* 186-188: the command time is cleared, the thread sleeps 200 ms
TnClear ==
    /\ tune.pc = "clear"
    /\ tune' = [tune EXCEPT
                  !.pc = "sensors_tx", !.index = 1,
                  !.command_time = NoValue,
                  !.now = @ + 2 * PollSleep,
                  !.calls = Append(@, Call(tune, "clear_command_time", NoValue))]
    /\ UNCHANGED << server, rt, vl, ftx, frx, cli >>

\* 201-206, 212-217, 225-230, 235-240: one lock sensor is looked up; where
\* the device lists it, it is read, and a reading that is not locked fails
\* UHD_ASSERT_THROW
AfterSensor(t, name, index, listed, locked) ==
    IF ~ listed THEN t
    ELSE [ t EXCEPT !.calls = Append(@, Call(t, name, index)),
                    !.pc = IF locked THEN @ ELSE "raised" ]

\* 200-208: lo_locked of one TX channel, or the end of the loop
TnSensorTx ==
    /\ tune.pc = "sensors_tx"
    /\ \/ /\ tune.index <= Len(tune.tx_channels)
          /\ \E listed, locked \in BOOLEAN :
                tune' = AfterSensor([tune EXCEPT !.index = @ + 1],
                                    "get_tx_sensor",
                                    tune.tx_channels[tune.index],
                                    listed, locked)
       \/ /\ tune.index > Len(tune.tx_channels)
          /\ tune' = [tune EXCEPT !.pc = "sensors_rx", !.index = 1]
    /\ UNCHANGED << server, rt, vl, ftx, frx, cli >>

\* 211-218: lo_locked of one RX channel, or the end of the loop
TnSensorRx ==
    /\ tune.pc = "sensors_rx"
    /\ \/ /\ tune.index <= Len(tune.rx_channels)
          /\ \E listed, locked \in BOOLEAN :
                tune' = AfterSensor([tune EXCEPT !.index = @ + 1],
                                    "get_rx_sensor",
                                    tune.rx_channels[tune.index],
                                    listed, locked)
       \/ /\ tune.index > Len(tune.rx_channels)
          /\ tune' = [tune EXCEPT !.pc = "sensors_board", !.index = 0]
    /\ UNCHANGED << server, rt, vl, ftx, frx, cli >>

\* 221-242: ref_locked (clock source external) or mimo_locked (mimo) of one
\* board, or the end; no board sensor is read with another clock source
TnSensorBoard ==
    /\ tune.pc = "sensors_board"
    /\ \/ /\ tune.clock_source \in { "external", "mimo" }
          /\ tune.index < NumMboards
          /\ \E listed, locked \in BOOLEAN :
                tune' = AfterSensor([tune EXCEPT !.index = @ + 1],
                                    "get_mboard_sensor", tune.index,
                                    listed, locked)
       \/ /\ ~ ( tune.clock_source \in { "external", "mimo" }
                 /\ tune.index < NumMboards )
          /\ tune' = [tune EXCEPT !.pc = "done"]
    /\ UNCHANGED << server, rt, vl, ftx, frx, cli >>

InitTune ==
    /\ ServerAt("configure")
    /\ rt = RtIdle
    /\ vl = VlOff
    /\ ftx = FtxOff
    /\ frx = FrxOff
    /\ cli = CliOff
    /\ tune \in TuneRuns

NextTune ==
    \/ TnPoll
    \/ TnSetTime
    \/ TnSetCommandTime
    \/ TnTuneTx
    \/ TnTuneRx
    \/ TnClear
    \/ TnSensorTx
    \/ TnSensorRx
    \/ TnSensorBoard

SpecTune == InitTune /\ [][NextTune]_vars

(***************************************************************************)
(* transmit_from_file_worker (workers.cpp:21-132, and the same function in *)
(* txrx_sync.cpp:80-201), run by the command-line programs as their TX     *)
(* thread.  Channel ch of the streamer reads file ch, of file_bytes[ch]    *)
(* bytes; sample k of that file is FileSample(ch, k), its two halves       *)
(* FileHalf(ch, k).                                                        *)
(***************************************************************************)
FileHalf(ch, k) == ch * (MaxFileSamples + 1) + k
FileSample(ch, k) == << FileHalf(ch, k), FileHalf(ch, k) >>

\* a buffer entry never written
NoSample == << 0, 0 >>

\* 64-67: what read leaves in entry k of the buffer of channel ch after it
\* delivered count bytes from byte cursor on: the whole samples, then the
\* bytes of a tail shorter than a sample over the first bytes of the next
\* entry, then what was there
EntryAfterRead(ch, k, cursor, count, old) ==
    IF k <= count \div SampleWidth
    THEN FileSample(ch, cursor \div SampleWidth + k)
    ELSE IF k = count \div SampleWidth + 1 /\ count % SampleWidth # 0
    THEN << FileHalf(ch, cursor \div SampleWidth + k), old[2] >>
    ELSE old

\* variant of gcount: a read that meets the end of the file delivers nothing
gcount_WholeChunk(bytes, cursor, spb) ==
    IF bytes - cursor >= spb * SampleWidth THEN spb * SampleWidth ELSE 0

\* 64-67: ifstream::read of spb samples and gcount; at the end of the file
\* the stream delivers what is left, and nothing from then on
gcount(bytes, cursor, spb) == Min(spb * SampleWidth, bytes - cursor)

\* variant of read_samps_of: the byte count is taken for the sample count
read_samps_of_Bytes(count) == count

\* 68-69
read_samps_of(count) == count \div SampleWidth

\* variant of valid_after: the count of the channel read last is kept
valid_after_Last(ch, buf_valid_samps, read_samps) == read_samps

\* 71-77: the valid count after channel ch (the first is 1) was read
valid_after(ch, buf_valid_samps, read_samps) ==
    IF ch = 1 THEN read_samps ELSE Min(buf_valid_samps, read_samps)

RECURSIVE valid_over(_, _, _)
valid_over(reads, ch, buf_valid_samps) ==
    IF ch > Len(reads) THEN buf_valid_samps
    ELSE valid_over(reads, ch + 1, valid_after(ch, buf_valid_samps, reads[ch]))

\* 63-67: the bytes the read of channel ch delivers: of its file, or, for a
\* channel past the last file (infiles[ch] out of range), the count stray
count_of(f, ch, stray) ==
    IF ch \in DOMAIN f.file_bytes
    THEN gcount(f.file_bytes[ch], f.cursor[ch], f.spb)
    ELSE stray

\* 63-67: entry k of the buffer of channel ch after the read
entry_of(f, ch, k, count) ==
    IF ch \in DOMAIN f.file_bytes
    THEN EntryAfterRead(ch, k, f.cursor[ch], count, f.buffs[ch][k])
    ELSE f.buffs[ch][k]

\* variant of Refilled: a chunk shorter than spb counts as the end of file
Refilled_ShortIsEof(f, stray) ==
    LET counts == [ ch \in 1..f.num_channels |-> count_of(f, ch, stray) ]
        reads  == [ ch \in DOMAIN counts |-> read_samps_of(counts[ch]) ]
        valid  == valid_over(reads, 1, 0)
    IN  [ f EXCEPT
            !.buf_sent_samps = 0,
            !.buf_valid_samps = valid,
            !.eof = (valid < f.spb),
            !.read_samps = reads,
            !.cursor = [ ch \in DOMAIN counts |->
                           IF ch \in DOMAIN f.file_bytes
                           THEN f.cursor[ch] + counts[ch] ELSE f.cursor[ch] ],
            !.buffs = [ ch \in DOMAIN counts |->
                          [ k \in 1..f.spb |->
                              entry_of(f, ch, k, counts[ch]) ] ] ]

\* 58-82: the refill, one read per channel of the streamer
Refilled(f, stray) ==
    LET counts == [ ch \in 1..f.num_channels |-> count_of(f, ch, stray) ]
        reads  == [ ch \in DOMAIN counts |-> read_samps_of(counts[ch]) ]
        valid  == valid_over(reads, 1, 0)
    IN  [ f EXCEPT
            !.buf_sent_samps = 0,
            !.buf_valid_samps = valid,
            !.eof = (valid = 0),
            !.read_samps = reads,
            !.cursor = [ ch \in DOMAIN counts |->
                           IF ch \in DOMAIN f.file_bytes
                           THEN f.cursor[ch] + counts[ch] ELSE f.cursor[ch] ],
            !.buffs = [ ch \in DOMAIN counts |->
                          [ k \in 1..f.spb |->
                              entry_of(f, ch, k, counts[ch]) ] ] ]

\* variant of AfterSend: the cursor moves by the count offered, not by the
\* count the streamer took
AfterSend_Offered(f, samps_sent) ==
    IF samps_sent = 0 THEN [f EXCEPT !.pc = "loop"]
    ELSE [ f EXCEPT
             !.pc = "loop",
             !.buf_sent_samps = @ + f.samps_to_send,
             !.out = [ ch \in DOMAIN @ |->
                         @[ch] \o SubSeq(f.buffs[ch],
                                         f.buf_sent_samps + 1,
                                         f.buf_sent_samps + samps_sent) ] ]

\* 104-118: the accounting after send returned samps_sent
AfterSend(f, samps_sent) ==
    IF samps_sent = 0 THEN [f EXCEPT !.pc = "loop"]
    ELSE LET g == [ f EXCEPT
                      !.buf_sent_samps = @ + samps_sent,
                      !.out = [ ch \in DOMAIN @ |->
                                  @[ch] \o SubSeq(f.buffs[ch],
                                                  f.buf_sent_samps + 1,
                                                  f.buf_sent_samps + samps_sent) ] ]
         IN  IF g.eof /\ g.buf_sent_samps = g.buf_valid_samps
             THEN [g EXCEPT !.markers = @ + 1, !.pc = "finalize"]
             ELSE [g EXCEPT !.pc = "loop"]

\* 23-49: the worker as it is called, with a streamer of num_channels
\* channels, the chunk size and the bytes of every file it is given
FtxRun(num_channels, spb, fb) ==
    [ FtxOff EXCEPT
        !.pc = "start", !.num_channels = num_channels, !.spb = spb,
        !.file_bytes = fb,
        !.cursor = [ ch \in 1..num_channels |-> 0 ],
        !.read_samps = [ ch \in 1..num_channels |-> 0 ],
        !.buffs = [ ch \in 1..num_channels |-> Fill(spb, NoSample) ],
        !.out = [ ch \in 1..num_channels |-> << >> ] ]

\* the worker called on its own: every chunk size, a streamer of 1 to
\* MaxChannels channels, 1 to MaxChannels files, each of every length in
\* half samples
FtxRuns ==
    { FtxRun(c, spb, fb) :
        c \in 1..MaxChannels,
        spb \in 0..MaxSpb,
        fb \in UNION { [ 1..n -> { h * (SampleWidth \div 2) :
                                     h \in 0..(2 * MaxFileSamples) } ] :
                         n \in 1..MaxChannels } }

\* the process goes on: no thread met a fault that ended it
ProcessRuns == ftx.pc # "crashed" /\ frx.pc # "crashed"

\* 36, 166: &buff.front() is taken of every channel's vector of spb
\* elements; on an empty vector that is undefined
front_undefined(num_channels, spb) == num_channels >= 1 /\ spb = 0

\* 23-49: the buffers are made and the files opened; where front() is
\* undefined (36) the pointer it yields is never used
FtxStart ==
    /\ ftx.pc = "start"
    /\ ProcessRuns
    /\ ftx' = [ftx EXCEPT !.pc = "loop"]
    /\ UNCHANGED << server, rt, vl, frx, cli, tune >>

\* workers.cpp:36: front() of an empty vector ends the process (a checked
\* library aborts), before the loop and before any call of the streamer;
\* the worker of txrx_sync takes buff.data() (txrx_sync.cpp:94)
FtxStartFault ==
    /\ ftx.pc = "start"
    /\ ProcessRuns
    /\ cli.program # "txrx_sync"
    /\ front_undefined(ftx.num_channels, ftx.spb)
    /\ ftx' = [ftx EXCEPT !.pc = "crashed"]
    /\ UNCHANGED << server, rt, vl, frx, cli, tune >>

\* 56: the chunk is used up and the files have not ended
refill_due(f) == f.buf_sent_samps = f.buf_valid_samps /\ ~ f.eof

\* 64: the streamer has more channels than there are files, so infiles[ch]
\* is read past the end of the vector
infiles_out_of_range(f) == f.num_channels > Len(f.file_bytes)

\* what a read through an element past the end of infiles may deliver,
\* when it delivers anything: some count of bytes of no file
StrayCounts(f) ==
    IF infiles_out_of_range(f)
    THEN { k * SampleWidth : k \in 0..f.spb }
    ELSE { 0 }

\* 53: the loop condition is tested and holds; the flag may be set at any
\* moment after the test, and the body of this turn runs all the same
FtxLoopTest ==
    /\ ftx.pc = "loop"
    /\ ProcessRuns
    /\ ~ stop_signal_called
    /\ ftx' = [ftx EXCEPT !.pc = "body"]
    /\ UNCHANGED << server, rt, vl, frx, cli, tune >>

\* 55-102: the body of the loop up to the call of send: refill when the
\* chunk is used up, leave at the end of the files, else offer what is left
\* of the chunk
FtxFill ==
    /\ ftx.pc = "body"
    /\ ProcessRuns
    /\ \E stray \in StrayCounts(ftx) :
         LET f == IF refill_due(ftx) THEN Refilled(ftx, stray) ELSE ftx
         IN  ftx' = IF f.buf_valid_samps = 0 /\ f.eof
                    THEN [f EXCEPT !.pc = "finalize"]
                    ELSE [f EXCEPT !.pc = "send",
                                   !.samps_to_send =
                                       f.buf_valid_samps - f.buf_sent_samps]
    /\ UNCHANGED << server, rt, vl, frx, cli, tune >>

\* 64: the read through an element past the end of infiles ends the
\* process, whatever became of the stop flag since the test of line 53
FtxFillFault ==
    /\ ftx.pc = "body"
    /\ ProcessRuns
    /\ refill_due(ftx)
    /\ infiles_out_of_range(ftx)
    /\ ftx' = [ftx EXCEPT !.pc = "crashed"]
    /\ UNCHANGED << server, rt, vl, frx, cli, tune >>

\* 98-118: the streamer takes samps_sent of the samples offered
FtxSend ==
    /\ ftx.pc = "send"
    /\ ProcessRuns
    /\ \E samps_sent \in 0..ftx.samps_to_send :
         ftx' = [ AfterSend(ftx, samps_sent) EXCEPT
                    !.data_after_marker = @ \/ ftx.markers > 0 ]
    /\ UNCHANGED << server, rt, vl, frx, cli, tune >>

\* 98: send raises
FtxSendError ==
    /\ ftx.pc = "send"
    /\ ProcessRuns
    /\ ftx' = [ftx EXCEPT !.pc = "raised"]
    /\ UNCHANGED << server, rt, vl, frx, cli, tune >>

\* 53: the stop flag is set
FtxStopExit ==
    /\ ftx.pc = "loop"
    /\ ProcessRuns
    /\ stop_signal_called
    /\ ftx' = [ftx EXCEPT !.pc = "finalize"]
    /\ UNCHANGED << server, rt, vl, frx, cli, tune >>

\* 121-131: the end-of-burst marker after the loop
FtxEndOfBurst ==
    /\ ftx.pc = "finalize"
    /\ ProcessRuns
    /\ ftx' = [ftx EXCEPT !.pc = "done", !.markers = @ + 1]
    /\ UNCHANGED << server, rt, vl, frx, cli, tune >>

\* 123: the send of the marker raises
FtxEndOfBurstError ==
    /\ ftx.pc = "finalize"
    /\ ProcessRuns
    /\ ftx' = [ftx EXCEPT !.pc = "raised"]
    /\ UNCHANGED << server, rt, vl, frx, cli, tune >>

(***************************************************************************)
(* receive_to_file_worker (workers.cpp:148-224, and the same function in   *)
(* txrx_sync.cpp:213-289), run by the command-line programs as their RX    *)
(* thread.  `written` is the number of samples written to each file.  The  *)
(* write loop (209-212) runs over the files and takes buffs[i] for file i. *)
(***************************************************************************)
\* 148-150: the worker as it is called, with a streamer of c channels and
\* num_files file names
FrxRun(c, num_files, spb, n) ==
    [ FrxOff EXCEPT !.pc = "open", !.num_channels = c,
                    !.num_files = num_files, !.spb = spb,
                    !.num_samps_to_recv = n ]

\* the worker called on its own, with a streamer of 1 to MaxChannels
\* channels and 1 to MaxChannels file names
FrxRuns ==
    { FrxRun(c, nf, spb, n) :
        c \in 1..MaxChannels, nf \in 1..MaxChannels,
        spb \in 0..MaxSpb, n \in 0..MaxNsamps }

\* 151-181: the files open, the stream command is issued; where front() is
\* undefined the pointer it yields is never used
FrxOpen ==
    /\ frx.pc = "open"
    /\ ProcessRuns
    /\ frx' = [frx EXCEPT !.pc = "loop"]
    /\ UNCHANGED << server, rt, vl, ftx, cli, tune >>

\* 166: front() of an empty vector ends the process (a checked library
\* aborts), after the files were opened and before the stream command
FrxOpenFault ==
    /\ frx.pc = "open"
    /\ ProcessRuns
    /\ front_undefined(frx.num_channels, frx.spb)
    /\ frx' = [frx EXCEPT !.pc = "crashed"]
    /\ UNCHANGED << server, rt, vl, ftx, cli, tune >>

\* 155-158: a file cannot be opened
FrxOpenError ==
    /\ frx.pc = "open"
    /\ ProcessRuns
    /\ frx' = [frx EXCEPT !.pc = "raised", !.what = "Cannot open receive file:"]
    /\ UNCHANGED << server, rt, vl, ftx, cli, tune >>

\* 187: the loop condition
frx_continues(stop, f) ==
    ~ stop /\ f.num_samps_received < f.num_samps_to_recv

\* 187-188: the loop condition holds and recv is called; the call blocks
\* up to its timeout, and the stop flag may be set while it does
FrxCall ==
    /\ frx.pc = "loop"
    /\ ProcessRuns
    /\ frx_continues(stop_signal_called, frx)
    /\ frx' = [frx EXCEPT !.pc = "recv"]
    /\ UNCHANGED << server, rt, vl, ftx, cli, tune >>

\* 188, 209-213: recv returns without error; the stream command (172-173)
\* lets the device deliver num_samps_to_recv samples in all
FrxRecv ==
    /\ frx.pc = "recv"
    /\ ProcessRuns
    /\ \E code \in ErrorCodes, num_rx_samps \in
            0..Min(frx.spb, frx.num_samps_to_recv - frx.num_samps_received) :
         /\ rx_error_class(code) = "count"
         /\ frx' = [frx EXCEPT
                       !.pc = "loop",
                       !.num_samps_received = @ + num_rx_samps,
                       !.written = @ + num_rx_samps,
                       !.error_code = code,
                       !.timeout = timeout_after_recv(frx.first_packet, @),
                       !.first_packet = FALSE]
    /\ UNCHANGED << server, rt, vl, ftx, cli, tune >>

\* 209-211: there are more files than channels of the streamer, so
\* buffs[i] is read past the end of the vector
buffs_out_of_range(f) == f.num_files > f.num_channels

\* 210: the write from an element past the end of buffs ends the process;
\* in FrxRecv it writes some bytes to the file and the worker goes on
FrxRecvFault ==
    /\ frx.pc = "recv"
    /\ ProcessRuns
    /\ buffs_out_of_range(frx)
    /\ frx' = [frx EXCEPT !.pc = "crashed", !.error_code = "NONE",
                   !.timeout = timeout_after_recv(frx.first_packet, @),
                   !.first_packet = FALSE]
    /\ UNCHANGED << server, rt, vl, ftx, cli, tune >>

\* 196-203: timeout or overflow, nothing is written
FrxRecvTransient ==
    /\ frx.pc = "recv"
    /\ ProcessRuns
    /\ \E code \in ErrorCodes :
         /\ rx_error_class(code) = "continue"
         /\ frx' = [frx EXCEPT
                       !.pc = "loop",
                       !.error_code = code,
                       !.timeout = timeout_after_recv(frx.first_packet, @),
                       !.first_packet = FALSE]
    /\ UNCHANGED << server, rt, vl, ftx, cli, tune >>

\* 204-207: any other error code
FrxRecvError ==
    /\ frx.pc = "recv"
    /\ ProcessRuns
    /\ \E code \in ErrorCodes :
         /\ rx_error_class(code) = "raise"
         /\ frx' = [frx EXCEPT
                       !.pc = "raised", !.error_code = code,
                       !.what = ReceiveError(code),
                       !.timeout = timeout_after_recv(frx.first_packet, @),
                       !.first_packet = FALSE]
    /\ UNCHANGED << server, rt, vl, ftx, cli, tune >>

\* 187, 216-223: the loop ends, the files are closed
FrxLoopExit ==
    /\ frx.pc = "loop"
    /\ ProcessRuns
    /\ ~ frx_continues(stop_signal_called, frx)
    /\ frx' = [frx EXCEPT !.pc = "done"]
    /\ UNCHANGED << server, rt, vl, ftx, cli, tune >>

(***************************************************************************)
(* The main threads of the command-line programs: txrx_sync                *)
(* (txrx_sync.cpp:527-668), which starts the two workers of txrx_sync.cpp  *)
(* (80-201 and 217-295), and txrx_samples_from_to_file                     *)
(* (txrx_samples_from_to_file.cpp:358-737), which starts the two workers   *)
(* of workers.cpp.  The workers are the same code but for the buffer       *)
(* pointers of the TX worker.                                              *)
(***************************************************************************)
Programs == { "txrx_sync", "txrx_samples_from_to_file" }

CliArgs == { "help", "error", "ok" }

\* the TX files a command line may name
CliTxFiles == { "a", "c", "missing" }

\* the lists of 1 to MaxChannels TX file names
CliTxFileLists == UNION { [ 1..c -> CliTxFiles ] : c \in 1..MaxChannels }

\* txrx_sync.cpp:531-588: every list option is multitoken with a default
\* of one entry, so no list of the configuration is empty
SyncConfigs ==
    { [ BaseConfig(Len(files), nrx, spb, nsamps, 1, "internal")
          EXCEPT !.tx_files = files ] :
        files \in CliTxFileLists,
        nrx \in 1..MaxChannels, spb \in 0..MaxSpb, nsamps \in 0..MaxNsamps }
    \cup
    { Defective(BaseConfig(MaxChannels, MaxChannels, 1, 1, 1, "internal"), d) :
        d \in { "tx_gains_short", "rx_ants_short", "tx_chan_range",
                "tx_rates_short" } }

\* txrx_samples_from_to_file.cpp:390-432: the channel lists and the file
\* lists are four multitoken options of their own, none empty, and nothing
\* ties their lengths; antenna, gain, frequency and rate are single values
SamplesConfigs ==
    { [ BaseConfig(ntx, nrx, spb, 0, 1, "internal")
          EXCEPT !.tx_files = files, !.rx_files = Fill(nrf, "out") ] :
        files \in CliTxFileLists,
        ntx \in 1..MaxChannels, nrx \in 1..MaxChannels,
        nrf \in 1..MaxChannels, spb \in 0..MaxSpb }
    \cup
    { Defective(BaseConfig(MaxChannels, MaxChannels, 1, 0, 1, "internal"), d) :
        d \in { "tx_chan_range", "rx_chan_range" } }
    \cup
    { [ BaseConfig(1, 1, 1, 0, 1, "internal")
          EXCEPT !.tx_files = Fill(ntf, "a"), !.rx_files = Fill(nrf, "out") ] :
        ntf \in { 1, HwChannels + 1 }, nrf \in { 1, HwChannels + 1 } }

CliConfigs(program) ==
    IF program = "txrx_sync" THEN SyncConfigs ELSE SamplesConfigs

CliRuns ==
    UNION { { [ CliOff EXCEPT !.pc = "parse", !.program = p, !.args = a,
                              !.config = c ] :
                a \in CliArgs, c \in CliConfigs(p) } :
            p \in Programs }

\* txrx_sync.cpp:589-603, txrx_samples_from_to_file.cpp:435-449: --help
\* returns success, a command line that does not parse returns failure,
\* before anything else is done
CliParse ==
    /\ cli.pc = "parse"
    /\ cli' = CASE cli.args = "help" ->
                    [cli EXCEPT !.pc = "exited", !.status = EXIT_SUCCESS]
               [] cli.args = "error" ->
                    [cli EXCEPT !.pc = "exited", !.status = EXIT_FAILURE]
               [] OTHER -> [cli EXCEPT !.pc = "make"]
    /\ UNCHANGED << server, rt, vl, ftx, frx, tune >>

\* txrx_sync.cpp:605-613, txrx_samples_from_to_file.cpp:451-459: the signal
\* handler is registered and the device made
CliMake ==
    /\ cli.pc = "make"
    /\ cli' = [cli EXCEPT !.pc = "validate"]
    /\ UNCHANGED << server, rt, vl, ftx, frx, tune >>

\* making the device, a call of the configuration or the opening of a
\* streamer raises; the exception leaves the main function
CliRaise ==
    /\ cli.pc \in { "make", "apply", "streams" }
    /\ cli' = [cli EXCEPT !.pc = "exited", !.status = SafeMainFailure]
    /\ UNCHANGED << server, rt, vl, ftx, frx, tune >>

\* txrx_sync.cpp:615-623
CliValidate ==
    /\ cli.pc = "validate"
    /\ cli.program = "txrx_sync"
    /\ cli' = IF ValidateUsrpConfiguration(cli.config)
              THEN [cli EXCEPT !.pc = "apply"]
              ELSE [cli EXCEPT !.pc = "exited", !.status = EXIT_FAILURE]
    /\ UNCHANGED << server, rt, vl, ftx, frx, tune >>

\* txrx_sync.cpp:624 (378-500): the configuration is applied
CliApply ==
    /\ cli.pc = "apply"
    /\ cli.program = "txrx_sync"
    /\ RatesInRange(cli.config)
    /\ cli' = [cli EXCEPT !.pc = "streams"]
    /\ UNCHANGED << server, rt, vl, ftx, frx, tune >>

\* txrx_sync.cpp:398, 422: a rate list shorter than its channel list is
\* read out of range; the read faults or yields a value
CliApplyOutOfRange ==
    /\ cli.pc = "apply"
    /\ cli.program = "txrx_sync"
    /\ ~ RatesInRange(cli.config)
    /\ \E next \in { "streams", "crashed" } : cli' = [cli EXCEPT !.pc = next]
    /\ UNCHANGED << server, rt, vl, ftx, frx, tune >>

\* txrx_samples_from_to_file.cpp:487-506: what the checks before the
\* configuration come to: an assertion throws, or main returns failure, or
\* it goes on
PreCheck(c) ==
    IF ~ (HwChannels >= Len(c.tx_files)) THEN "throw"
    ELSE IF ~ (HwChannels >= Len(c.rx_files)) THEN "throw"
    ELSE IF ~ (\A i \in DOMAIN c.tx_files : exists(c.tx_files[i]))
    THEN "failure"
    ELSE IF adjacent_differ([i \in DOMAIN c.tx_files |->
                               file_size(c.tx_files[i])])
    THEN "failure"
    ELSE "ok"

\* txrx_samples_from_to_file.cpp:484-506
CliPreCheck ==
    /\ cli.pc = "validate"
    /\ cli.program = "txrx_samples_from_to_file"
    /\ cli' = CASE PreCheck(cli.config) = "throw" ->
                    [cli EXCEPT !.pc = "exited", !.status = SafeMainFailure]
               [] PreCheck(cli.config) = "failure" ->
                    [cli EXCEPT !.pc = "exited", !.status = EXIT_FAILURE]
               [] OTHER -> [cli EXCEPT !.pc = "apply"]
    /\ UNCHANGED << server, rt, vl, ftx, frx, tune >>

\* txrx_samples_from_to_file.cpp:509-675: every channel is configured; a
\* channel the device does not have throws (510-514, 533-537)
CliConfigure ==
    /\ cli.pc = "apply"
    /\ cli.program = "txrx_samples_from_to_file"
    /\ cli' = IF /\ \A i \in DOMAIN cli.config.tx_channels :
                       cli.config.tx_channels[i] < HwChannels
                 /\ \A i \in DOMAIN cli.config.rx_channels :
                       cli.config.rx_channels[i] < HwChannels
              THEN [cli EXCEPT !.pc = "streams"]
              ELSE [cli EXCEPT !.pc = "exited", !.status = SafeMainFailure]
    /\ UNCHANGED << server, rt, vl, ftx, frx, tune >>

\* what the TX worker can read of a file: a file that does not exist
\* cannot be opened, and every read of it delivers nothing
readable_bytes(f) == IF exists(f) THEN file_size(f) ELSE 0

\* the count the RX worker is asked for: --nsamps in txrx_sync
\* (txrx_sync.cpp:653), the samples of the first TX file in
\* txrx_samples_from_to_file (txrx_samples_from_to_file.cpp:701)
nums_to_recv(program, c) ==
    IF program = "txrx_sync" THEN c.nsamps
    ELSE file_size(c.tx_files[1]) \div SampleWidth

\* txrx_sync.cpp:626-654, txrx_samples_from_to_file.cpp:677-704: the
\* streamers are opened on the channel lists and both workers are started,
\* each on a thread of its own
CliStart ==
    /\ cli.pc = "streams"
    /\ cli' = [cli EXCEPT !.pc = "wait"]
    /\ ftx' = FtxRun(get_num_channels(cli.config.tx_channels),
                     cli.config.spb,
                     [ i \in DOMAIN cli.config.tx_files |->
                         readable_bytes(cli.config.tx_files[i]) ])
    /\ frx' = FrxRun(get_num_channels(cli.config.rx_channels),
                     Len(cli.config.rx_files), cli.config.spb,
                     nums_to_recv(cli.program, cli.config))
    /\ UNCHANGED << server, rt, vl, tune >>

\* txrx_sync.cpp:656-667, txrx_samples_from_to_file.cpp:727-736: the main
\* thread waits for both futures, which keeps what a
\* worker raised unread, sets the stop flag and returns success
WorkerEnded(w) == w.pc \in { "done", "raised" }

CliJoin ==
    /\ cli.pc = "wait"
    /\ WorkerEnded(ftx) /\ WorkerEnded(frx)
    /\ cli' = [cli EXCEPT !.pc = "exited", !.status = EXIT_SUCCESS]
    /\ stop_signal_called' = TRUE
    /\ UNCHANGED << pc, locals, device, tasks, rx_shm, history, waits,
                    rt, vl, ftx, frx, tune >>

(***************************************************************************)
(* The runs of the command-line programs, and of each worker called on its *)
(* own (workers.h).  The threads share the stop flag and nothing else; the *)
(* control thread of the server is not part of these runs.                 *)
(***************************************************************************)
InitFile ==
    /\ ServerAt("cli")
    /\ rt = RtIdle
    /\ vl = VlOff
    /\ \/ cli = CliOff /\ ftx \in FtxRuns /\ frx = FrxOff
       \/ cli = CliOff /\ ftx = FtxOff /\ frx \in FrxRuns
       \/ cli \in CliRuns /\ ftx = FtxOff /\ frx = FrxOff
    /\ tune = TuneOff

NextFile ==
    \/ sig_int_handler
    \/ FtxStart
    \/ FtxStartFault
    \/ FtxLoopTest
    \/ FtxFill
    \/ FtxFillFault
    \/ FtxSend
    \/ FtxSendError
    \/ FtxStopExit
    \/ FtxEndOfBurst
    \/ FtxEndOfBurstError
    \/ FrxOpen
    \/ FrxOpenFault
    \/ FrxOpenError
    \/ FrxCall
    \/ FrxRecv
    \/ FrxRecvFault
    \/ FrxRecvTransient
    \/ FrxRecvError
    \/ FrxLoopExit
    \/ CliParse
    \/ CliMake
    \/ CliRaise
    \/ CliValidate
    \/ CliApply
    \/ CliApplyOutOfRange
    \/ CliPreCheck
    \/ CliConfigure
    \/ CliStart
    \/ CliJoin

SpecFile == InitFile /\ [][NextFile]_vars

\* the server and the command-line programs, each from its own start
InitPipelines == Init \/ InitFile

NextPipelines == Next \/ NextFile

SpecPipelines == InitPipelines /\ [][NextPipelines]_vars

(***************************************************************************)
(* Properties.  A reply has just been sent when the control thread is back *)
(* at the loop condition with the reply of the request still in `sent`.    *)
(***************************************************************************)
Replied == pc = "loop" /\ Len(sent) = 1
Status == sent[1].status
IsExecute == Len(steps) >= 2 /\ steps[2] = "validate"
Terminated(task) == task.pc \in { "idle", "done", "raised" }
Running(task) == task.pc \in { "start", "loop", "send", "recv", "finalize" }

\* C1: every request received gets exactly one reply: never two, and the
\* control thread is never back at the loop condition, out of the loop or
\* dead with a request it has received and not answered.
C1_OneReplyPerRequest ==
    /\ Len(sent) <= 1
    /\ pc \in { "loop", "exit", "crashed" } =>
          \/ steps = << >> /\ sent = << >>
          \/ Len(sent) = 1 /\ steps[Len(steps)] = "reply"

\* C2: once validation of an EXECUTE has failed, no device call is made and
\* no task is started for that request, and its reply has status FAILED.
C2_FailedValidationTouchesNoHardware ==
    ( /\ IsExecute
      /\ ~ ValidateConfiguration(ConvertConfig(req_proto.config)) )
    => /\ hwTouched = { }
       /\ tx.pc = "idle" /\ rx.pc = "idle"
       /\ startWrites = 0
       /\ pc \in { "failed", "loop" }
       /\ Replied => Status = "FAILED"

\* C2 witness: the reply to 2 TX channels with 1 TX gain has been sent.
C2_Witness ==
    /\ Replied
    /\ Status = "FAILED"
    /\ Len(config.tx_channels) = 2
    /\ Len(config.tx_gains) = 1
    /\ hwTouched = { }

\* C3: whenever an exception was raised while the EXECUTE was processed, the
\* reply has status ERROR.
C3_EveryFailureRepliesError ==
    (Replied /\ failures # { }) => Status = "ERROR"

\* C4: when the TX task ended by raising, the reply is not SUCCESS.
C4_TxFailureFailsExecute ==
    (Replied /\ tx.pc = "raised") => Status # "SUCCESS"

\* C5: when the mapped input segment's byte size is no multiple of
\* (TX channel count x sample width), no task is ever started for the
\* request and its reply is ERROR.
C5_InexactSegmentIsError ==
    ( /\ tx_region.present
      /\ Len(config.tx_channels) > 0
      /\ tx_region.bytes % (Len(config.tx_channels) * SampleWidth) # 0 )
    => /\ tx.pc = "idle" /\ rx.pc = "idle"
       /\ Replied => Status = "ERROR"

\* C6: the steps of an EXECUTE are a prefix of validation, configuration,
\* split, pipelines, join, output, followed by the reply; a task exists only
\* after configuration and split, the output only after both tasks ended,
\* and a SUCCESS went through every step.
ExecuteOrder ==
    << "request", "validate", "configure", "split", "launch", "join", "output" >>

StepsBeforeReply ==
    IF steps # << >> /\ steps[Len(steps)] = "reply" THEN DropLast(steps)
    ELSE steps

C6_ExecuteStepOrder ==
    IsExecute =>
       /\ StepsBeforeReply = SubSeq(ExecuteOrder, 1, Len(StepsBeforeReply))
       /\ (tx.pc # "idle" \/ rx.pc # "idle") =>
             /\ Len(StepsBeforeReply) >= 5
             /\ startWrites = 1
             /\ ChannelCalls(config) \cup ClockCalls \cup TuneCalls(config)
                   \cup { "time_next_pps" } \subseteq hwTouched
             /\ tx_region.present
       /\ Len(StepsBeforeReply) = 7 =>
             /\ tx.pc \in { "done", "raised" }
             /\ rx.pc = "done"
             /\ rx_shm.present
       /\ (Replied /\ Status = "SUCCESS") => Len(StepsBeforeReply) = 7

\* C6 witness: a SUCCESS reply after all seven steps.
C6_Witness ==
    /\ Replied
    /\ Status = "SUCCESS"
    /\ steps = Append(ExecuteOrder, "reply")

\* C7: while the control thread is past the join, and when the reply has
\* been sent, neither task is running.
C7_TasksJoinedBeforeReply ==
    (pc \in { "write_output", "respond", "loop", "exit", "crashed" }
       \/ Len(sent) > 0)
    => Terminated(tx) /\ Terminated(rx)

\* C7 witness: the reply to an EXECUTE whose RX task raised has been sent,
\* after the TX task had sent its samples.
C7_Witness ==
    /\ Replied
    /\ rx.pc = "raised"
    /\ tx.pc = "done"
    /\ tx.current_sample_idx = 2

\* C7, interleaving: both tasks are in the middle of their loops.
C7_Interleaved ==
    /\ tx.pc = "loop" /\ tx.current_sample_idx = 1 /\ tx.total_samples = 2
    /\ rx.pc = "loop" /\ rx.num_samps_received = 1

\* C8: start_time is assigned at most once per request, as a device time
\* plus the configured delay; no step changes it while a task runs; and the
\* time of the TX metadata and of the RX stream command both equal it.
C8_SharedStartInstant ==
    /\ [] /\ startWrites <= 1
          /\ startWrites = 1 => (start_time - m_config.delay) \in 1..MaxNow
          /\ tx.pc \in { "loop", "send", "finalize", "done" } =>
                tx.time_spec = start_time /\ startWrites = 1
          /\ rx.pc \in { "loop", "recv", "done" } =>
                rx.time_spec = start_time /\ startWrites = 1
    /\ [][ (Running(tx) \/ Running(rx)) => start_time' = start_time ]_vars

\* C8 witness: both tasks in their loops with the same, delayed, start time.
C8_Witness ==
    /\ tx.pc = "loop" /\ rx.pc = "loop"
    /\ m_config.delay = MaxDelay
    /\ tx.time_spec = MaxNow + MaxDelay
    /\ rx.time_spec = MaxNow + MaxDelay

\* C9: a SUCCESS reply names the segment "usrp_rx_shm", its channel count is
\* the number of configured RX channels, its samples per channel the length
\* of every channel the RX task returned; the segment exists and holds
\* exactly channels x samples samples, channel i's k-th at (i-1)*samples + k.
C9_SuccessReplyMatchesSegment ==
    (Replied /\ Status = "SUCCESS") =>
       LET cc == sent[1].num_rx_ch
           n == sent[1].rx_nsamps_per_ch
       IN  /\ sent[1].rx_shm_name = "usrp_rx_shm"
           /\ cc = Len(config.rx_channels)
           /\ Len(rx.buffs) = cc
           /\ \A i \in 1..cc : Len(rx.buffs[i]) = n
           /\ n = rx.num_samps_received
           /\ rx_shm.present
           /\ rx_shm.bytes = cc * n * SampleWidth
           /\ Len(rx_shm.data) = cc * n
           /\ \A i \in 1..cc : \A k \in 1..n :
                 rx_shm.data[(i - 1) * n + k] = RxSample(i, k)

\* C9 witness: SUCCESS for 2 RX channels of 2 samples each.
C9_Witness ==
    /\ Replied
    /\ Status = "SUCCESS"
    /\ sent[1].num_rx_ch = 2
    /\ sent[1].rx_nsamps_per_ch = 2
    /\ config.nsamps = 2

\* C9, the scenario of the specification scaled down: 1 RX channel, nsamps
\* fully received.
C9_Scenario ==
    /\ Replied
    /\ Status = "SUCCESS"
    /\ Len(config.tx_channels) = 1
    /\ sent[1].num_rx_ch = 1
    /\ sent[1].rx_nsamps_per_ch = MaxNsamps
    /\ Len(rx_shm.data) = MaxNsamps

\* C10: every channel set of C >= 1 channels of N >= 0 samples is written
\* to a segment, the write raising nothing, and splitting back what was
\* written gives every channel's samples.
C10_RoundTrip ==
    /\ rt.phase # "raised"
    /\ rt.phase = "split" => rt.back = rt.channels

\* C10, the round trip of channels that hold samples: two different
\* channels of two samples went round.
C10_Witness ==
    /\ rt.phase = "split"
    /\ Len(rt.channels) = 2
    /\ Len(rt.channels[1]) = 2
    /\ rt.channels[1] # rt.channels[2]
    /\ rt.channels[1][1] # rt.channels[1][2]
    /\ rt.segment.bytes = 4 * SampleWidth

\* C11: a RELEASE is never left for the catch block or for a fault; once it
\* is handled no output segment exists, whether or not one existed before;
\* its reply is always the same record, status RELEASED and nothing else
\* set; and a RELEASE that follows a RELEASE finds no segment, so the
\* second leaves the state and the reply of the first.
C11_ReleaseIdempotentTotal ==
    ( /\ steps # << >>
      /\ req_proto.parses
      /\ req_proto.cmd = "RELEASE" )
    => /\ pc \in { "parsed", "respond", "loop" }
       /\ failures = { }
       /\ hwTouched = { }
       /\ pc \in { "respond", "loop" } => rx_shm = NoSegment
       /\ (prev_release /\ pc = "parsed") => rx_shm = NoSegment
       /\ Replied => sent[1] = set_status(NewReply, "RELEASED")

\* C11 witness: the reply to a RELEASE that followed a RELEASE.
C11_Witness ==
    /\ Replied
    /\ req_proto.parses
    /\ req_proto.cmd = "RELEASE"
    /\ prev_release
    /\ Status = "RELEASED"
    /\ rx_shm = NoSegment

\* C12: a request that does not parse is answered ERROR with the parse
\* diagnostic and the control thread is back at the loop condition; no
\* device call, task or exception belongs to it, and handling it changes
\* neither the output segment nor the transceiver's members.
C12_ParseErrorTouchesNothing ==
    /\ [] ( (steps # << >> /\ ~ req_proto.parses) =>
              /\ pc \in { "parsed", "loop" }
              /\ hwTouched = { }
              /\ failures = { }
              /\ startWrites = 0
              /\ tx.pc = "idle" /\ rx.pc = "idle"
              /\ ~ tx_region.present
              /\ Replied => /\ Status = "ERROR"
                            /\ sent[1].msg = "Protobuf parse error" )
    /\ [][ (pc = "parsed" /\ ~ req_proto.parses) =>
              /\ rx_shm' = rx_shm
              /\ m_config' = m_config
              /\ start_time' = start_time ]_vars

\* C12 witness: the reply to an unparsable request, an output segment of an
\* earlier EXECUTE still in place.
C12_Witness ==
    /\ Replied
    /\ ~ req_proto.parses
    /\ Status = "ERROR"
    /\ rx_shm.present
    /\ rx_shm.bytes > 0

\* what C13 names: per role the five lists have one length, every TX file
\* exists and all TX files have one size
ListsEqual(sizes) == \A i, j \in DOMAIN sizes : sizes[i] = sizes[j]

ListsAndFilesGood(c) ==
    /\ ListsEqual(tx_sizes(c))
    /\ ListsEqual(rx_sizes(c))
    /\ \A i \in DOMAIN c.tx_files : exists(c.tx_files[i])
    /\ \A i, j \in DOMAIN c.tx_files :
          file_size(c.tx_files[i]) = file_size(c.tx_files[j])

TxInRange(c) == \A i \in DOMAIN c.tx_channels : c.tx_channels[i] < HwChannels
RxInRange(c) == \A i \in DOMAIN c.rx_channels : c.rx_channels[i] < HwChannels

\* C13 as stated: for every configuration the verdict is true exactly when
\* the lists have equal lengths, the TX files exist and have one size; and
\* after one list's length is made to differ the verdict is false.
C13_ValidateIffListsAndFiles ==
    /\ vl.phase = "validated" => (vl.result <=> ListsAndFilesGood(vl.config))
    /\ vl.phase = "revalidated" => ~ vl.again

\* C13, amended: for every configuration the verdict is true exactly when
\* moreover every TX channel is one the device has; and after one list's
\* length is made to differ the verdict is false.
C13_ValidateIff ==
    /\ vl.phase = "validated" =>
          (vl.result <=> (TxInRange(vl.config) /\ ListsAndFilesGood(vl.config)))
    /\ vl.phase = "revalidated" => ~ vl.again

\* C13 witness: a configuration of 2 TX channels was accepted, then its
\* frequency list was cut to 1 entry and it was rejected.
C13_Witness ==
    /\ vl.phase = "revalidated"
    /\ vl.result
    /\ ~ vl.again
    /\ vl.changed = "tx_freqs"
    /\ Len(vl.config.tx_channels) = 2
    /\ Len(vl.config.tx_freqs) = 1

\* C14: an EXECUTE naming a TX or RX channel the device does not have fails
\* validation: it makes no device call and goes to the FAILED reply.
C14_OutOfRangeChannelRejected ==
    (IsExecute /\ ~ (TxInRange(config) /\ RxInRange(config))) =>
       /\ ~ ValidateConfiguration(config)
       /\ hwTouched = { }
       /\ pc \in { "failed", "loop" }

\* the smallest entry of a list of counts, 0 for the empty list
Smallest(counts) ==
    IF counts = << >> THEN 0
    ELSE CHOOSE m \in { counts[ch] : ch \in DOMAIN counts } :
            \A ch \in DOMAIN counts : m <= counts[ch]

\* the channels of the streamer that have a file
FileChannels(f) == 1..Min(f.num_channels, Len(f.file_bytes))

\* the whole samples the file of each such channel holds
FileSamples(f) ==
    [ ch \in FileChannels(f) |-> f.file_bytes[ch] \div SampleWidth ]

(***************************************************************************)
(* C15: in the file-backed TX worker the valid count of a chunk is the     *)
(* smallest of the counts the channels' reads returned at the refill, a    *)
(* data send hands the streamer the same number of samples of every        *)
(* channel, and no channel transmits more samples than the shortest file   *)
(* holds.                                                                  *)
(***************************************************************************)
C15_RefillTakesMinimum ==
    ftx.pc # "off" =>
        /\ ftx.buf_valid_samps = Smallest(ftx.read_samps)
        /\ \A a, b \in DOMAIN ftx.out : Len(ftx.out[a]) = Len(ftx.out[b])
        /\ \A ch \in DOMAIN ftx.out :
              Len(ftx.out[ch]) <= Smallest(FileSamples(ftx))

\* files of 2 and 1 samples: one sample of each channel went out
C15_Witness ==
    /\ ftx.pc = "done"
    /\ ftx.file_bytes = << 2 * SampleWidth, SampleWidth >>
    /\ ftx.spb = 2
    /\ ftx.num_channels = 2
    /\ Len(ftx.out[1]) = 1 /\ Len(ftx.out[2]) = 1

(***************************************************************************)
(* C16: the buffers ReceiveToBuffer returns have one length on every       *)
(* channel, at most nsamps, and exactly nsamps when the stop flag was not  *)
(* set.                                                                    *)
(***************************************************************************)
C16_ReturnedCountBounded ==
    rx.pc = "done" =>
        /\ Len(rx.buffs) = get_num_channels(m_config.rx_channels)
        /\ \A a, b \in DOMAIN rx.buffs : Len(rx.buffs[a]) = Len(rx.buffs[b])
        /\ \A ch \in DOMAIN rx.buffs : Len(rx.buffs[ch]) <= m_config.nsamps
        /\ ~ stop_signal_called =>
              \A ch \in DOMAIN rx.buffs : Len(rx.buffs[ch]) = m_config.nsamps

\* two samples asked for in chunks of one, all delivered without a stop
C16_Witness ==
    /\ rx.pc = "done"
    /\ ~ stop_signal_called
    /\ m_config.nsamps = 2 /\ m_config.spb = 1
    /\ Len(rx.buffs) = 1
    /\ Len(rx.buffs[1]) = 2

(***************************************************************************)
(* C17 as stated: once the stop flag is set with the receive loop running  *)
(* the task captures nothing more and does not raise, and the buffers it   *)
(* returns have the length of the count captured on every channel.         *)
(***************************************************************************)
C17_StopReturnsCaptured ==
    /\ [](rx.pc = "done" =>
            \A ch \in DOMAIN rx.buffs :
               Len(rx.buffs[ch]) = rx.num_samps_received)
    /\ [][ ( rx.pc \in { "loop", "recv" } /\ stop_signal_called /\ rx' # rx )
            => /\ rx'.pc # "raised"
               /\ rx'.num_samps_received = rx.num_samps_received ]_vars

(***************************************************************************)
(* C17 with the read in progress: once the stop flag is set the receive    *)
(* loop calls no further read; a read that was in progress comes back      *)
(* first, with samples that are counted or with an error that is raised;   *)
(* the step of the loop test is the normal return, and the buffers         *)
(* returned have the length of the count captured on every channel.        *)
(***************************************************************************)
C17_StopReturnsCapturedAtTest ==
    /\ [](rx.pc = "done" =>
            \A ch \in DOMAIN rx.buffs :
               Len(rx.buffs[ch]) = rx.num_samps_received)
    /\ [][ ( rx.pc = "loop" /\ stop_signal_called /\ rx' # rx )
            => /\ rx'.pc = "done"
               /\ rx'.num_samps_received = rx.num_samps_received ]_vars
    /\ [][ ( rx.pc = "recv" /\ stop_signal_called /\ rx' # rx )
            => /\ rx'.pc \in { "loop", "raised" }
               /\ rx'.num_samps_received >= rx.num_samps_received
               /\ rx'.num_samps_received <= m_config.nsamps ]_vars

\* stopped after one of two samples: one sample per channel is returned
C17_Witness ==
    /\ rx.pc = "done"
    /\ stop_signal_called
    /\ m_config.nsamps = 2
    /\ rx.num_samps_received = 1
    /\ Len(rx.buffs) > 0
    /\ \A ch \in DOMAIN rx.buffs : Len(rx.buffs[ch]) = 1

(***************************************************************************)
(* C18: a TX pipeline that returns, after the stop flag or at the end of   *)
(* its data, has sent the zero-length end-of-burst marker, and no data     *)
(* send was made after a marker: TransmitFromBuffer makes no send once     *)
(* end_of_burst is set, transmit_from_file_worker sent its marker and no   *)
(* data after it.                                                          *)
(***************************************************************************)
C18_EndOfBurstLast ==
    /\ [](tx.pc = "done" => tx.end_of_burst)
    /\ [](ftx.pc = "done" => ftx.markers >= 1 /\ ~ ftx.data_after_marker)
    /\ [][ tx.end_of_burst =>
             ( tx'.pc \in { "loop", "finalize", "done" } =>
                 tx'.current_sample_idx = tx.current_sample_idx ) ]_vars
    /\ [][ ftx.markers > 0 => ftx'.out = ftx.out ]_vars

\* TransmitFromBuffer returned at the end of its data, marker sent
C18_Witness ==
    /\ tx.pc = "done"
    /\ ~ stop_signal_called
    /\ tx.end_of_burst
    /\ tx.total_samples > 0
    /\ tx.current_sample_idx = tx.total_samples

\* a step of a receive loop from `before` to `after` in which its read
\* came back: what the error code of the read led to (a read without an
\* error raises nothing)
ReadClassified(before, after) ==
    ( before.pc = "recv" /\ after # before ) =>
        IF after.error_code \in { "TIMEOUT", "OVERFLOW" }
        THEN /\ after.pc = "loop"
             /\ after.num_samps_received = before.num_samps_received
        ELSE IF after.error_code = "NONE"
        THEN after.pc # "raised"
        ELSE /\ after.pc = "raised"
             /\ after.what = "Receive error: " \o after.error_code

(***************************************************************************)
(* C19: in ReceiveToBuffer and in receive_to_file_worker a read reporting  *)
(* timeout or overflow leaves the loop running with the count unchanged    *)
(* and raises nothing; a read reporting any other error raises "Receive    *)
(* error: " with the description of the code; a reply of the server sent   *)
(* after the RX task raised has status ERROR, and carries that message     *)
(* when the TX task returned.                                              *)
(***************************************************************************)
C19_RxErrorClassification ==
    /\ [][ReadClassified(rx, rx')]_vars
    /\ [][ReadClassified(frx, frx')]_vars
    /\ []( ( Replied /\ rx.pc = "raised" ) =>
             /\ Status = "ERROR"
             /\ ( tx.pc = "done" /\ rx.error_code # "NONE" )
                   => sent[1].msg = "Receive error: " \o rx.error_code )

\* the reply after a read reported a bad packet
C19_Witness ==
    /\ Replied
    /\ rx.pc = "raised"
    /\ rx.error_code = "BAD_PACKET"
    /\ tx.pc = "done"
    /\ Status = "ERROR"
    /\ sent[1].msg = "Receive error: BAD_PACKET"

(***************************************************************************)
(* C20: the wait of ApplyConfiguration for a PPS edge is bounded: after    *)
(* fewer than MaxPpsPolls polls without a new edge it has stopped polling  *)
(* and raised a timing error, so the control thread is never found in the  *)
(* wait with MaxPpsPolls polls behind it.                                  *)
(***************************************************************************)
C20_PpsWaitBounded ==
    ~ ( pc = "apply_pps" /\ pps_polls >= MaxPpsPolls )

\* the lock sensors a configuration requires: lo_locked of its TX and RX
\* channels, and the reference lock of every board for its clock source
RequiredSensors(c) ==
    { Sensor("tx_lo_locked", c.tx_channels[i]) : i \in DOMAIN c.tx_channels }
    \cup { Sensor("rx_lo_locked", c.rx_channels[i]) : i \in DOMAIN c.rx_channels }
    \cup ( IF c.clock_source = "external"
           THEN { Sensor("ref_locked", mb) : mb \in 0..(NumMboards - 1) }
           ELSE { } )
    \cup ( IF c.clock_source = "mimo"
           THEN { Sensor("mimo_locked", mb) : mb \in 0..(NumMboards - 1) }
           ELSE { } )

(***************************************************************************)
(* C21: when a lock sensor the configuration requires reports unlocked     *)
(* after the tune, the next step of ApplyConfiguration raises: the reply   *)
(* becomes ERROR and start_time is not assigned; and a reply sent after    *)
(* the lock check raised is ERROR, with no assignment to start_time, no    *)
(* stream created and both tasks never started.                            *)
(***************************************************************************)
C21_UnlockedSensorFailsConfigure ==
    /\ [][ ( /\ pc = "apply_lock"
             /\ RequiredSensors(m_config) \cap sensors # { }
             /\ pc' # pc )
           => /\ pc' = "respond"
              /\ reply_proto'.status = "ERROR"
              /\ start_time' = start_time
              /\ startWrites' = startWrites ]_vars
    /\ []( ( Replied /\ "lock" \in failures ) =>
             /\ Status = "ERROR"
             /\ startWrites = 0
             /\ tx.pc = "idle" /\ rx.pc = "idle"
             /\ hwTouched \cap { "tx_stream", "rx_stream", "send", "recv" } = { } )

\* the reply to an EXECUTE whose lock check raised
C21_Witness ==
    /\ Replied
    /\ "lock" \in failures
    /\ Status = "ERROR"
    /\ Len(m_config.rx_channels) > 0
    /\ startWrites = 0

(***************************************************************************)
(* C22: a receive count of 0 stands for "until transmit completes": with   *)
(* nsamps = 0 and the stop flag not set the RX task has not returned while *)
(* the TX task of the same request still has samples to send.              *)
(***************************************************************************)
C22_ZeroMeansUntilTxCompletes ==
    ( /\ m_config.nsamps = 0
      /\ ~ stop_signal_called
      /\ tx.pc \in { "loop", "send" }
      /\ tx.current_sample_idx < tx.total_samples )
        => rx.pc # "done"

(***************************************************************************)
(* C23: a command-line program one of whose workers ended by raising does  *)
(* not return success: when the main thread has returned and the TX worker *)
(* raised, or the RX worker raised a receive error, the exit status is not *)
(* EXIT_SUCCESS.                                                           *)
(***************************************************************************)
C23_WorkerErrorExitsNonZero ==
    ( /\ cli.pc = "exited"
      /\ \/ ftx.pc = "raised"
         \/ frx.pc = "raised" /\ frx.error_code # "NONE" )
        => cli.status # EXIT_SUCCESS

\* what C24 says of a task at its loop test when the stop flag is set, and
\* of the calls made after it: TX leaves the loop with the cursor where it
\* was, RX returns with the count where it was, trimmed to it, and no send
\* of data and no read is called any more
StopAtLoopTest ==
    /\ [][ ( stop_signal_called /\ tx.pc = "loop" /\ tx' # tx )
           => /\ tx'.pc = "finalize"
              /\ tx'.current_sample_idx = tx.current_sample_idx ]_vars
    /\ [][ ( stop_signal_called /\ rx.pc = "loop" /\ rx' # rx )
           => /\ rx'.pc = "done"
              /\ rx'.num_samps_received = rx.num_samps_received
              /\ \A ch \in DOMAIN rx'.buffs :
                    Len(rx'.buffs[ch]) = rx.num_samps_received ]_vars
    /\ [][ stop_signal_called =>
             /\ ~ ( tx.pc # "send" /\ tx'.pc = "send" )
             /\ ~ ( rx.pc # "recv" /\ rx'.pc = "recv" ) ]_vars

(***************************************************************************)
(* C24 as stated: once the stop flag is set, a task at its loop test       *)
(* leaves the loop; no send and no read is called any more, the one in     *)
(* progress comes back to the loop test; TX sends the marker and returns,  *)
(* RX returns trimmed; a task that is running when the flag is set         *)
(* returns, whatever the device does.                                      *)
(***************************************************************************)
C24_StopReturnsNormally ==
    /\ StopAtLoopTest
    /\ [][ ( stop_signal_called /\ tx.pc = "finalize" /\ tx' # tx )
           => tx'.pc = "done" /\ tx'.end_of_burst ]_vars
    /\ [][ ( stop_signal_called /\ tx.pc = "send" /\ tx' # tx )
           => tx'.pc = "loop" ]_vars
    /\ [][ ( stop_signal_called /\ rx.pc = "recv" /\ rx' # rx )
           => rx'.pc = "loop" ]_vars
    /\ ( stop_signal_called /\ Running(tx) ) ~> ( tx.pc = "done" )
    /\ ( stop_signal_called /\ Running(rx) ) ~> ( rx.pc = "done" )

(***************************************************************************)
(* C24, amended: as stated, but the send or read in progress comes back to *)
(* the loop test or raises, and the send of the marker returns or raises;  *)
(* a task that is running when the flag is set comes to its end, returning *)
(* or raising.                                                             *)
(***************************************************************************)
C24_StopEndsPipelines ==
    /\ StopAtLoopTest
    /\ [][ ( stop_signal_called /\ tx.pc = "finalize" /\ tx' # tx )
           => \/ tx'.pc = "done" /\ tx'.end_of_burst
              \/ tx'.pc = "raised" /\ ~ tx'.end_of_burst ]_vars
    /\ [][ ( stop_signal_called /\ tx.pc = "send" /\ tx' # tx )
           => tx'.pc \in { "loop", "raised" } ]_vars
    /\ [][ ( stop_signal_called /\ rx.pc = "recv" /\ rx' # rx )
           => rx'.pc \in { "loop", "raised" } ]_vars
    /\ ( stop_signal_called /\ Running(tx) ) ~> Terminated(tx)
    /\ ( stop_signal_called /\ Running(rx) ) ~> Terminated(rx)

\* both tasks returned after the flag cut them short
C24_Witness ==
    /\ stop_signal_called
    /\ tx.pc = "done" /\ tx.end_of_burst
    /\ 0 < tx.current_sample_idx /\ tx.current_sample_idx < tx.total_samples
    /\ rx.pc = "done"
    /\ 0 < rx.num_samps_received /\ rx.num_samps_received < m_config.nsamps

(***************************************************************************)
(* C25: a request that arrives after the stop flag was set is not          *)
(* dispatched: no EXECUTE of such a request gets as far as validation and  *)
(* no RELEASE of such a request is answered.                               *)
(***************************************************************************)
C25_NoDispatchAfterStop ==
    late_request =>
        /\ ~ IsExecute
        /\ ~ ( Len(sent) > 0 /\ sent[1].status = "RELEASED" )

\* the samples of `after` handed over since `before`, per channel
Handed(before, after) ==
    [ ch \in DOMAIN after.out |->
        SubSeq(after.out[ch], Len(before.out[ch]) + 1, Len(after.out[ch])) ]

(***************************************************************************)
(* C26: a send of the file worker moves buf_sent_samps by the count the    *)
(* streamer took, between 0 and the count offered, hands over exactly the  *)
(* samples of the chunk from the old cursor on, and reads nothing from the *)
(* files; a send that took nothing changes nothing; the next send over a   *)
(* chunk not used up starts at the cursor, for what is left, without a     *)
(* read.  So what each channel handed over is its file from the first      *)
(* sample on, in order, and a worker that has left its loop has handed     *)
(* over every sample of the chunk it read last.  TransmitFromBuffer moves  *)
(* its cursor the same way, by at most the count offered.                  *)
(***************************************************************************)
C26_SendAccounting ==
    /\ [][ ( ftx.pc = "send" /\ ftx'.pc \in { "loop", "finalize" } ) =>
             LET n == ftx'.buf_sent_samps - ftx.buf_sent_samps
             IN  /\ n \in 0..ftx.samps_to_send
                 /\ ftx'.cursor = ftx.cursor
                 /\ ftx'.buffs = ftx.buffs
                 /\ ftx'.buf_valid_samps = ftx.buf_valid_samps
                 /\ \A ch \in DOMAIN ftx.out :
                       Handed(ftx, ftx')[ch] =
                         SubSeq(ftx.buffs[ch], ftx.buf_sent_samps + 1,
                                ftx.buf_sent_samps + n)
                 /\ n = 0 => ftx'.out = ftx.out ]_vars
    /\ [][ ( /\ ftx.pc = "body" /\ ftx'.pc = "send"
             /\ ftx.buf_sent_samps < ftx.buf_valid_samps ) =>
             /\ ftx'.cursor = ftx.cursor
             /\ ftx'.buffs = ftx.buffs
             /\ ftx'.buf_sent_samps = ftx.buf_sent_samps
             /\ ftx'.samps_to_send =
                   ftx.buf_valid_samps - ftx.buf_sent_samps ]_vars
    /\ []( \A ch \in FileChannels(ftx) :
             \A k \in 1..Len(ftx.out[ch]) :
                ftx.out[ch][k] = FileSample(ch, k) )
    /\ []( ftx.pc \in { "finalize", "done" } =>
             ftx.buf_sent_samps = ftx.buf_valid_samps )
    /\ [][ ( tx.pc = "send" /\ tx'.pc = "loop" ) =>
             /\ tx'.total_samples = tx.total_samples
             /\ tx'.current_sample_idx - tx.current_sample_idx \in
                   0..Min(m_config.spb,
                          tx.total_samples - tx.current_sample_idx) ]_vars

\* the second send over a chunk of two samples of which one was taken
C26_Witness ==
    /\ ftx.pc = "send"
    /\ ftx.buf_valid_samps = 2
    /\ ftx.buf_sent_samps = 1
    /\ ftx.samps_to_send = 1
    /\ ftx.out = << << FileSample(1, 1) >> >>

(***************************************************************************)
(* C27: the file worker sends its end-of-burst marker only with the chunk  *)
(* it holds handed over in full: once it has left its loop with a chunk it *)
(* had begun to send, no sample of that chunk is left unsent, also when    *)
(* the stop flag ended the loop.                                           *)
(***************************************************************************)
C27_PartialChunkFlushed ==
    ( ftx.pc \in { "finalize", "done" } /\ ftx.buf_sent_samps > 0 )
        => ftx.buf_sent_samps = ftx.buf_valid_samps

(***************************************************************************)
(* C28: a read of ReceiveToBuffer made with the long timeout that reported *)
(* a timeout leaves the long timeout in force for the next read.           *)
(***************************************************************************)
C28_TimeoutKeptUntilFirstSuccess ==
    [][ ( /\ rx.pc = "recv" /\ rx'.pc = "loop"
          /\ rx.timeout = LongTimeout
          /\ rx'.error_code = "TIMEOUT" )
        => rx'.timeout = LongTimeout ]_vars

\* the positions in the log of the calls of a name
CallsNamed(names) ==
    { i \in DOMAIN tune.calls : tune.calls[i].name \in names }

TuneNames == { "set_tx_freq", "set_rx_freq" }

SensorNames == { "get_tx_sensor", "get_rx_sensor", "get_mboard_sensor" }

(***************************************************************************)
(* C29: in the calls of the configuration the time reset comes before the  *)
(* command time, the command time before every tune, every tune before the *)
(* clearing and the clearing before any sensor read; every tune is issued  *)
(* with the one command time in effect, at a device time before it; and    *)
(* the run that is done has tuned every configured channel.                *)
(***************************************************************************)
C29_CoordinatedTuneOrder ==
    /\ \A i \in CallsNamed({ "set_command_time" }) :
          \E j \in CallsNamed({ "set_time_next_pps" }) : j < i
    /\ \A i \in CallsNamed(TuneNames) :
          /\ \E j \in CallsNamed({ "set_command_time" }) : j < i
          /\ \A j \in CallsNamed({ "clear_command_time" }) : i < j
          /\ tune.calls[i].command_time = CommandTime
          /\ tune.calls[i].time_now >= 0
          /\ tune.calls[i].time_now < tune.calls[i].command_time
    /\ \A i \in CallsNamed(SensorNames) :
          /\ \E j \in CallsNamed({ "clear_command_time" }) : j < i
          /\ tune.calls[i].command_time = NoValue
    /\ Cardinality(CallsNamed({ "set_command_time" })) <= 1
    /\ tune.pc = "done" =>
          /\ { tune.calls[i].ch : i \in CallsNamed({ "set_tx_freq" }) }
                = { tune.tx_channels[k] : k \in DOMAIN tune.tx_channels }
          /\ { tune.calls[i].ch : i \in CallsNamed({ "set_rx_freq" }) }
                = { tune.rx_channels[k] : k \in DOMAIN tune.rx_channels }

\* two TX channels and one RX channel tuned after an edge seen 50 ms late
C29_Witness ==
    /\ tune.pc = "done"
    /\ Len(tune.tx_channels) = 2 /\ Len(tune.rx_channels) = 1
    /\ Cardinality(CallsNamed(TuneNames)) = 3
    /\ Cardinality(CallsNamed(SensorNames)) = 3
    /\ \E i \in CallsNamed(TuneNames) :
          tune.calls[i].time_now = SettleSleep - PpsPeriod + 1

\* the first n samples of the file of channel ch
FilePrefix(ch, n) == [ k \in 1..n |-> FileSample(ch, k) ]

C30_Witness ==
    /\ ftx.pc = "done"
    /\ ~ stop_signal_called
    /\ ftx.spb = 1
    /\ ftx.file_bytes = << 2 * SampleWidth, 2 * SampleWidth >>
    /\ ftx.out = << FilePrefix(1, 2), FilePrefix(2, 2) >>

(***************************************************************************)
(* C31: a run of the file worker that has ended has sent exactly one       *)
(* end-of-burst marker, and none is sent before the loop is left.          *)
(***************************************************************************)
C31_OneEndOfBurst ==
    /\ ftx.markers <= 1
    /\ ftx.pc = "done" => ftx.markers = 1
    /\ ftx.pc \in { "loop", "body", "send", "finalize" } => ftx.markers = 0

\* a run over one file that sent its two samples and one marker
C31_Witness ==
    /\ ftx.pc = "done"
    /\ ~ stop_signal_called
    /\ ftx.spb = 2
    /\ ftx.out = << FilePrefix(1, 2) >>
    /\ ftx.eof
    /\ ftx.markers = 1

(***************************************************************************)
(* C32: every recv of ReceiveToBuffer asks for no more samples than the    *)
(* buffer holds from the offset of the call on: the samples received so    *)
(* far and the count asked for are together at most nsamps.                *)
(***************************************************************************)
C32_RecvWithinBuffer ==
    hwTouched \cap { "recv" } # { } =>
        rx.offset + rx.nsamps_per_buff <= m_config.nsamps

(***************************************************************************)
(* C33: an EXECUTE with at least one channel each way whose tasks were     *)
(* started is answered, when the device goes on accepting and delivering   *)
(* samples, whether or not the stop flag is set.                           *)
(***************************************************************************)
C33_ExecuteCompletes ==
    ( /\ pc = "wait_tx"
      /\ m_config.tx_channels # << >>
      /\ m_config.rx_channels # << >> ) ~> ( Len(sent) = 1 )

\* the request under way has written its result to the output segment
OutputWritten == \E i \in DOMAIN steps : steps[i] = "output"

(***************************************************************************)
(* C34: the segment named in a SUCCESS reply holds the result of that      *)
(* EXECUTE, and from a RELEASE on no output segment exists until an        *)
(* EXECUTE has written its result.                                         *)
(***************************************************************************)
C34_OutputSegmentLifecycle ==
    /\ ( Replied /\ Status = "SUCCESS" ) =>
          /\ rx_shm.present
          /\ sent[1].rx_shm_name = "usrp_rx_shm"
          /\ rx_shm.data = WriteChannels(rx_buffs, sent[1].rx_nsamps_per_ch)
    /\ ( prev_release /\ steps # << >> /\ ~ OutputWritten ) =>
          ~ rx_shm.present

(***************************************************************************)
(* C35: the output segment changes only in a step that makes the reply of  *)
(* its request SUCCESS or RELEASED; a request answered FAILED or ERROR     *)
(* leaves the segment as it found it.  (Stated for results with at least   *)
(* one channel and steps that do not fault.)                               *)
(***************************************************************************)
C35_FailedExecuteKeepsSegment ==
    [][ ( rx_shm' # rx_shm /\ pc' # "crashed" /\ Len(rx_buffs) > 0 )
        => reply_proto'.status \in { "SUCCESS", "RELEASED" } ]_vars

(***************************************************************************)
(* C36: every reply sent has status SUCCESS, FAILED, ERROR or RELEASED;    *)
(* its segment name and its two shape fields are set exactly when the      *)
(* status is SUCCESS; and a request that parses with a command other than  *)
(* EXECUTE and RELEASE is answered ERROR.                                  *)
(***************************************************************************)
C36_NoUnknownReply ==
    /\ \A i \in DOMAIN sent :
          /\ sent[i].status \in { "SUCCESS", "FAILED", "ERROR", "RELEASED" }
          /\ ( sent[i].rx_shm_name # NoValue ) <=> ( sent[i].status = "SUCCESS" )
          /\ ( sent[i].rx_nsamps_per_ch # -1 ) <=> ( sent[i].status = "SUCCESS" )
          /\ ( sent[i].num_rx_ch # -1 ) <=> ( sent[i].status = "SUCCESS" )
    /\ ( /\ Replied
          /\ req_proto.parses
          /\ req_proto.cmd \notin { "EXECUTE", "RELEASE" } ) =>
          /\ Status = "ERROR"
          /\ sent[1].msg = "Unknown command"

\* an unknown command answered ERROR
C36_Witness ==
    /\ Replied
    /\ req_proto.parses
    /\ req_proto.cmd = "OTHER"
    /\ Status = "ERROR"
    /\ sent[1].rx_shm_name = NoValue

(***************************************************************************)
(* C37: an EXECUTE whose configuration passed validation with an empty TX  *)
(* or RX channel list, and with rate lists as long as its channel lists,   *)
(* never ends with the server dead.                                        *)
(***************************************************************************)
C37_EmptyChannelListsAnswered ==
    ( /\ IsExecute
      /\ ValidateConfiguration(config)
      /\ RatesInRange(config)
      /\ \/ config.tx_channels = << >>
         \/ config.rx_channels = << >> )
    => pc # "crashed"

\* every list ApplyConfiguration indexes by channel position has an entry at
\* every position of its channel list
PerChannelListsCover(c) ==
    /\ \A i \in DOMAIN c.tx_channels :
          /\ i \in DOMAIN c.tx_gains /\ i \in DOMAIN c.tx_ants
          /\ i \in DOMAIN c.tx_rates /\ i \in DOMAIN c.tx_freqs
    /\ \A i \in DOMAIN c.rx_channels :
          /\ i \in DOMAIN c.rx_gains /\ i \in DOMAIN c.rx_ants
          /\ i \in DOMAIN c.rx_rates /\ i \in DOMAIN c.rx_freqs

(***************************************************************************)
(* C38: a configuration that passed validation has, for every TX and RX    *)
(* channel position, an entry in the gain, antenna, rate and frequency     *)
(* lists.                                                                  *)
(***************************************************************************)
C38_ValidatedListsCoverChannels ==
    ( IsExecute /\ ValidateConfiguration(config) ) =>
        PerChannelListsCover(config)

(***************************************************************************)
(* C39: ValidateUsrpConfiguration and ValidateConfiguration return the     *)
(* same verdict on every configuration, and both return false when a TX    *)
(* input file does not exist.                                              *)
(***************************************************************************)
C39_ValidatorsAgree ==
    vl.phase = "validated" =>
        /\ vl.cli_result = vl.result
        /\ ( \E i \in DOMAIN vl.config.tx_files :
                ~ exists(vl.config.tx_files[i]) ) =>
              ( ~ vl.result /\ ~ vl.cli_result )

(***************************************************************************)
(* C40: in the file worker 0 <= buf_sent_samps <= buf_valid_samps <= spb   *)
(* always; the files are read, by the started worker, only when            *)
(* buf_sent_samps = buf_valid_samps;                                       *)
(* and every send of data offers at least one sample, so only the          *)
(* end-of-burst marker is a send of none.                                  *)
(***************************************************************************)
C40_FileCursorInvariant ==
    /\ []( /\ 0 <= ftx.buf_sent_samps
           /\ ftx.buf_sent_samps <= ftx.buf_valid_samps
           /\ ftx.buf_valid_samps <= ftx.spb
           /\ ftx.pc = "send" =>
                 /\ ftx.samps_to_send >= 1
                 /\ ftx.samps_to_send =
                       ftx.buf_valid_samps - ftx.buf_sent_samps )
    /\ [][ ( /\ ftx.pc # "off"
             /\ ftx'.cursor # ftx.cursor \/ ftx'.read_samps # ftx.read_samps )
           => /\ ftx.pc = "body"
              /\ ftx.buf_sent_samps = ftx.buf_valid_samps
              /\ ftx'.buf_sent_samps = 0 ]_vars

\* the send of the one sample valid on both channels of a chunk of two
C40_Witness ==
    /\ ftx.pc = "send"
    /\ ftx.spb = 2
    /\ ftx.file_bytes = << 2 * SampleWidth, SampleWidth >>
    /\ ftx.read_samps = << 2, 1 >>
    /\ ftx.buf_valid_samps = 1
    /\ ftx.buf_sent_samps = 0
    /\ ftx.samps_to_send = 1

====
